---------------------------- MODULE Spec2Model ----------------------------
(***************************************************************************)
(* Model of the Reliance GRN automation (src/app.py, src/mbapp.py): the    *)
(* PDF workflow with its sheet synchronizer, the Gmail workflow with its   *)
(* folder router, and the persisted processed-state file.                  *)
(*                                                                         *)
(* Every external call (Drive, Sheets, Gmail, extraction) is one step, so  *)
(* that a process kill can fall between any two of them, and every call    *)
(* may raise (bounded by MaxFaults).                                       *)
(***************************************************************************)
EXTENDS Integers, Sequences, FiniteSets, TLC

\* ------------------------------------------------------------------ bounds
MaxFaults == 3
MaxKills == 1
MaxRuns == 2
MaxItems == 2
MaxResolves == 3
MaxStem == 101
MaxExt == 6
MaxTerm == 4
MaxCandidates == 1
MaxMatches == 4
MaxPage == 3
MaxDaysBack == 3
TicksPerDay == 4

\* ------------------------------------------------------- program constants
\* _append_to_google_sheet: max_retries = 3
max_retries == 3
\* _get_sheet_headers reads A1:Z1, and chr(64 + n) is a column letter up to Z
LastLetterCol == 26

\* ---------------------------------------------------------------- helpers
Range(s) == {s[j] : j \in 1..Len(s)}

Max(S) == CHOOSE x \in S : \A y \in S : y <= x

Take(s, n) == SubSeq(s, 1, IF n < Len(s) THEN n ELSE Len(s))

IsPrefix(a, b) == Len(a) <= Len(b) /\ \A j \in 1..Len(a) : a[j] = b[j]

\* list.index(x), 1-based; 0 stands for ValueError
IndexOf(s, x) ==
    IF x \in Range(s) THEN CHOOSE j \in 1..Len(s) : s[j] = x /\ \A k \in 1..(j - 1) : s[k] # x
    ELSE 0

\* the orders in which list(set(...)) may enumerate a set
Perms(S) == {f \in [1..Cardinality(S) -> S] : \A x \in S : \E j \in 1..Cardinality(S) : f[j] = x}

StrictlyDescending(s) == \A j \in 1..(Len(s) - 1) : s[j] > s[j + 1]

\* ------------------------------------------------------------ environment
Docs == {"d1", "d2"}

\* Drive listing of the folder, orderBy createdTime desc
Listing == <<"d1", "d2">>

\* the keys the extraction agent yields for the line items of a document
ItemKeys(d) == IF d = "d1" THEN {"qty"} ELSE {"po_number"}

\* time.strftime at the extraction: one value per run, "t0" before the first
Stamp(n) == "t" \o ToString(n)

\* values.get drops the trailing empty cells of a row
TrimRow(r) == SubSeq(r, 1, Max({0} \cup {j \in 1..Len(r) : r[j] # ""}))

Filler == [j \in 1..LastLetterCol |-> "c" \o ToString(j)]

\* sheets the tab may hold before the first run
FreshSheet == <<>>
HeaderOnlySheet == << <<"po_number", "qty">> >>
LegacySheet ==
    << <<"qty", "drive_file_id", "processed_date">>,
       <<"1", "d1", "t0">>, <<"", "d2", "t0">>, <<"", "d2", "t0">>,
       <<"2", "d1", "t0">>, <<"", "d2", "t0">>, <<"3", "d1", "t0">> >>
WideSheet ==
    << Filler \o <<"drive_file_id", "processed_date">>,
       [j \in 1..LastLetterCol |-> ""] \o <<"d1", "t0">> >>
InitSheets == {FreshSheet, HeaderOnlySheet, LegacySheet, WideSheet}

\* ---------------------------------------------- environment of the mail side
\* the messages the Gmail search returns
Mailbox == <<"m1", "m2", "m3">>

\* the attachment parts of a message's payload: filename as stem and extension
\* (no character that _sanitize_filename replaces, shorter than 100 characters)
Attachments(m) ==
    CASE m = "m1" -> << [stem |-> "a", ext |-> "pdf"], [stem |-> "b", ext |-> "xls"] >>
      [] m = "m2" -> << [stem |-> "c", ext |-> "pdf"] >>
      [] OTHER -> << >>

\* _classify_extension: "Other" without a dot or with an unknown extension
classify_extension(f) ==
    CASE f.ext = "pdf" -> "PDFs"
      [] f.ext \in {"doc", "docx", "txt"} -> "Documents"
      [] f.ext \in {"xls", "xlsx", "csv"} -> "Spreadsheets"
      [] f.ext \in {"jpg", "jpeg", "png", "gif"} -> "Images"
      [] f.ext \in {"ppt", "pptx"} -> "Presentations"
      [] f.ext \in {"zip", "rar", "7z"} -> "Archives"
      [] OTHER -> "Other"

\* a folder of the file store is [name, parent]; its id is its place in the
\* store, and 0 stands for the falsy ids of the code: None, "" (no parent, or
\* the "" that _create_drive_folder returns on failure)
Folder(name, parent) == [name |-> name, parent |-> parent]

\* the folder the configuration names
ConfiguredFolder == Folder("Reliance", 0)

\* file stores before the first run: the configured folder, alone or with a
\* PDFs folder that somebody keeps in it
InitFolders == { <<ConfiguredFolder>>, <<ConfiguredFolder, Folder("PDFs", 1)>> }

\* the runs that resolve folders side by side, and the names they ask for
Procs == {1, 2}
FolderNames == {"Gmail_Attachments", "PDFs"}

VARIABLES
    sheet,              \* the tab: row 1 is the header row, rows 2.. the data rows
    state_file,         \* processed_state.json: [emails, pdfs]
    processed_pdfs,     \* self.processed_pdfs
    processed_emails,   \* self.processed_emails
    config,             \* [variant, max_files, workflow_type]
    items,              \* number of line items the extraction yields per document
    pc,                 \* position of the PDF workflow
    pdf_files,          \* the candidates of the run
    i,                  \* loop index into pdf_files (1-based)
    existing_file_ids,  \* ids found in the sheet at the start of the run
    rows,               \* rows of the document being dispatched
    sheet_id_ok,        \* the sheet_id passed to _save_to_sheets designates the tab
    all_headers,        \* reconciled header list
    rows_to_delete,     \* located row numbers (unsorted: in sheet order)
    attempt,            \* attempt number of _append_to_google_sheet
    processed_count,    \* processed_count of the run
    \* history
    faults,             \* backend calls made to fail so far
    kills,              \* process kills so far
    runs,               \* runs started so far
    dirty,              \* some backend call has failed since Init
    wfault,             \* some backend call has failed during the current sheet write
    k_before,           \* rows tagged with the document's id when its write started
    appended_ok,        \* documents whose rows were appended successfully at least once
    committed,          \* ids written to the state file at least once
    del_req,            \* startIndex values of the last batched delete request
    sheet_at_start,     \* the sheet when the current run started
    \* the file store
    folders,            \* the non-trashed folders, in the order of their creation
    uploads,            \* the files uploaded: [name, parent]
    \* the Gmail workflow
    gmail_config,       \* [gdrive_folder_id, search_term]
    gpc,                \* position of the Gmail workflow
    emails,             \* the result of search_emails
    e,                  \* loop index into emails (1-based)
    part,               \* index of the attachment part at hand
    base_folder_id,
    search_folder_id,
    type_folder_id,
    attachment_count,   \* attachments of the message at hand that were uploaded
    \* history of the Gmail workflow
    path_fault,         \* a folder of the attachment at hand failed to resolve
    folders_at_fault,   \* number of folders in the store when that happened
    uploads_at_fault,   \* number of uploaded files when that happened
    counted,            \* parts of the message at hand that were uploaded
    faulted,            \* parts of the message at hand with a failed folder
    marks,              \* [id, counted, faulted] of every message marked processed
    delivered,          \* <<message, part>> uploaded or found present, ever
    run_faulted,        \* a folder of some attachment failed in the current run
    \* runs that resolve one folder each
    rpc,                \* position of each: "idle", "list", "create"
    rreq,               \* the (name, parent) asked for
    rbefore,            \* number of folders matching the request when it started
    rcreates,           \* create requests issued by the call
    calls,              \* the completed calls, in the order of their completion
    \* what a run reports, and what a sheet write and an extraction went through
    result,             \* the 'done' result of the last run: [success, processed]
    listing_failed,     \* the candidate listing of the last run raised
    precondition,       \* "ok", or the precondition the last run found not to hold
    total_attachments,  \* total_attachments of the Gmail run
    append_calls,       \* backend append calls of the current _append_to_google_sheet
    append_oks,         \* those of them that succeeded
    append_ret,         \* its return value: "none" until it returns
    extract_calls,      \* agent.extract calls made for the document at hand
    temp_files,         \* documents whose temporary file is on disk
    \* _process_extracted_data on its own
    extracted_data,     \* the payload: [present, items, product_items, po_number]
    adapter_rows,       \* the rows it returned
    adapter_warned,     \* it logged the 'no items key' warning
    adapter_done,       \* it has returned
    \* _sanitize_filename on its own
    raw_name,           \* the filename passed in, a sequence of characters
    cleaned,            \* the name it returned
    sanitize_done,      \* it has returned
    \* the query building of search_emails on its own
    keyword_expr,       \* the search_term passed in, a sequence of characters
    keyword_parts,      \* what it appended to query_parts for the keywords
    query_done,         \* the query has been built
    \* the worker thread, the progress queue and the loop of the page
    workflow_type,      \* "gmail", "pdf" or "combined"
    runner,             \* position of run_workflow_in_background
    invocation,         \* the workflow method being executed: "none", "gmail", "pdf"
    wpc,                \* position inside that method
    pending,            \* the messages it puts before its next branch
    todo,               \* candidates its loop has not visited yet
    count,              \* its processed count
    progress_queue,     \* the queue.Queue: messages put and not yet taken
    upc,                \* position of the page's loop
    seen,               \* the messages the page's loop has taken, in order
    \* history of the queue
    put_log,            \* every message put, in order
    dones,              \* 'done' messages the invocation at hand has put
    late,               \* the invocation at hand put a message after its 'done'
    \* a candidate listing on its own
    listing_kind,       \* "drive" (_list_drive_files) or "gmail" (search_emails)
    matching,           \* what matches the query at the backend, in its order
    backend_page,       \* the most the backend puts into one page
    max_results,        \* the max_results passed to search_emails
    page_token,         \* items delivered so far; -1 stands for None
    all_files,          \* the list built so far
    listed,             \* the listing has returned
    \* the date window of the two queries on its own
    time_now,           \* the clock when the query is built, in ticks
    days_back,
    created,            \* the instant an item was created or received
    drive_lower,        \* the instant in `createdTime >= '...'`
    mail_lower,         \* the instant that `after:` names
    window_done,        \* the bounds have been computed
    \* two engine instances whose PDF runs overlap
    shared_sheet,       \* the tab both write to
    shared_state,       \* processed_state.json, which both overwrite
    inst_variant,       \* "app" or "mb": the program both instances run
    inst_pc,            \* position of each instance
    inst_pdfs,          \* self.processed_pdfs of each
    inst_i,             \* loop index of each (1-based)
    inst_existing,      \* existing_file_ids of each
    inst_rows_to_delete \* rows_to_delete of each

pdfLocals == <<pdf_files, i, existing_file_ids, rows, sheet_id_ok, all_headers,
               rows_to_delete, attempt, processed_count>>
history == <<faults, kills, runs, dirty, wfault, k_before, appended_ok, committed,
             del_req, sheet_at_start>>
drive == <<folders, uploads>>
mailLocals == <<emails, e, part, base_folder_id, search_folder_id, type_folder_id,
                attachment_count, total_attachments>>
faultHistory == <<path_fault, folders_at_fault, uploads_at_fault, faulted, run_faulted>>
mailHistory == <<counted, marks, delivered, faultHistory>>
mailVars == <<gmail_config, gpc, mailLocals, mailHistory>>
routerVars == <<rpc, rreq, rbefore, rcreates, calls>>
writeHistory == <<append_calls, append_oks, append_ret, extract_calls>>
report == <<result, listing_failed, precondition>>
adapterVars == <<extracted_data, adapter_rows, adapter_warned, adapter_done>>
sanitizeVars == <<raw_name, cleaned, sanitize_done>>
\* the variables of the functions that are run on their own
queryVars == <<keyword_expr, keyword_parts, query_done>>
progressVars == <<workflow_type, runner, invocation, wpc, pending, todo, count,
                  progress_queue, upc, seen, put_log, dones, late>>
\* the variables of the parts that are run apart from the two workflows
listingVars == <<listing_kind, matching, backend_page, max_results, page_token,
                 all_files, listed>>
windowVars == <<time_now, days_back, created, drive_lower, mail_lower, window_done>>
overlapVars == <<shared_sheet, shared_state, inst_variant, inst_pc, inst_pdfs, inst_i,
                 inst_existing, inst_rows_to_delete>>
asideVars == <<progressVars, listingVars, windowVars, overlapVars>>
pureVars == <<adapterVars, sanitizeVars, queryVars, asideVars>>
\* what the PDF workflow leaves alone
mailSide == <<drive, mailVars, routerVars, pureVars>>
\* what the Gmail workflow and the folder runs leave alone
pdfSide == <<sheet, processed_pdfs, config, items, pc, pdfLocals, kills, wfault,
             k_before, appended_ok, committed, del_req, sheet_at_start, writeHistory,
             temp_files, pureVars>>
vars == <<sheet, state_file, processed_pdfs, processed_emails, config, items, pc,
          pdfLocals, history, mailSide, writeHistory, temp_files, report>>
\* the variables of the two workflows and of the folder runs
workflowVars == <<sheet, state_file, processed_pdfs, processed_emails, config, items, pc,
                  pdfLocals, history, drive, mailVars, routerVars, writeHistory,
                  temp_files, report>>


\* ------------------------------------------------- pure parts of the code
Header(s) == IF Len(s) = 0 THEN <<>> ELSE s[1]

\* faulty variant: a document without line items yields one row of its own
process_extracted_data_blank(d, n, now) ==
    [j \in 1..Max({n, 1}) |->
        [k \in {"drive_file_id", "processed_date"} |->
            IF k = "drive_file_id" THEN d ELSE now]]

\* _process_extracted_data: one cleaned row per line item, each carrying the
\* injected drive_file_id and processed_date (source_file, one more key that
\* every row carries, is left out of the rows)
process_extracted_data(d, n, now) ==
    [j \in 1..n |->
        [k \in ItemKeys(d) \cup {"drive_file_id", "processed_date"} |->
            CASE k = "drive_file_id" -> d
              [] k = "processed_date" -> now
              [] k = "qty" -> ToString(j)
              [] OTHER -> "PO"]]

\* the top-level keys a payload of the extraction agent may carry
TopKeys == {"items", "product_items", "po_number"}

\* None, as a value of a field
PyNone == "<None>"

\* a line item as the agent yields it: the quantity may be empty or None, and
\* the item may come with fields named as the injected ones
LineItems ==
    [qty : {"", PyNone, "1"}] \cup {[qty |-> "1", drive_file_id |-> "zz", source_file |-> ""]}

\* the file_info of the document at hand
FileInfo(id) == [id |-> id, name |-> id \o ".pdf"]

SeqsUpTo(S, n) == UNION {[1..m -> S] : m \in 0..n}

\* the payloads; a key that is absent carries nothing
Payloads ==
    {p \in [present : SUBSET TopKeys,
            items : SeqsUpTo(LineItems, MaxItems),
            product_items : SeqsUpTo(LineItems, MaxItems),
            po_number : {"", "PO7"}] :
        /\ "items" \notin p.present => p.items = <<>>
        /\ "product_items" \notin p.present => p.product_items = <<>>
        /\ "po_number" \notin p.present => p.po_number = ""}

NoPayload == [present |-> {}, items |-> <<>>, product_items |-> <<>>, po_number |-> ""]

\* _get_value: the value of the first of possible_keys that the payload carries
get_value(data, possible_keys, default) ==
    LET found == SelectSeq(possible_keys, LAMBDA k : k \in data.present)
    IN  IF found = <<>> THEN default ELSE data[Head(found)]

\* _process_extracted_data: the keys written into every item
Injected(item, data, file_info, now) ==
    [k \in DOMAIN item \cup {"po_number", "source_file", "processed_date",
                             "drive_file_id"} |->
        CASE k = "po_number" ->
                 get_value(data, <<"po_number", "purchase_order_number", "PO No">>, "")
          [] k = "source_file" -> file_info.name
          [] k = "drive_file_id" -> file_info.id
          [] k = "processed_date" -> now
          [] OTHER -> item[k]]

\* {k: v for k, v in item.items() if v not in ["", None]}
\* faulty variant: no field is dropped
CleanedKeepsAll(item) == item

Cleaned(item) == [k \in {h \in DOMAIN item : item[h] \notin {"", PyNone}} |-> item[k]]

\* _process_extracted_data on a payload: the rows of its "items" key, [] without it
ExtractedRows(data, file_info, now) ==
    IF "items" \in data.present
    THEN [j \in 1..Len(data.items) |->
             Cleaned(Injected(data.items[j], data, file_info, now))]
    ELSE <<>>

\* the characters that _sanitize_filename replaces: [<>:"/\\|?*]
Forbidden == {"<", ">", ":", "\"", "/", "\\", "|", "?", "*"}

Rep(c, n) == [j \in 1..n |-> c]

\* a filename of the inputs: a stem of ordinary characters, which may start
\* with a forbidden character (bad) and may hold a dot of its own after its
\* first character (inner), then, with dotted, a dot and an extension
Name(stem, ext, dotted, inner, bad) ==
    LET head == IF bad # "" /\ stem >= 1 THEN <<bad>> \o Rep("x", stem - 1)
                ELSE Rep("x", stem)
        body == IF inner /\ stem >= 1
                THEN SubSeq(head, 1, 1) \o <<".">> \o SubSeq(head, 2, stem)
                ELSE head
    IN  IF dotted THEN body \o <<".">> \o Rep("e", ext) ELSE body

\* the extensions of the inputs: short ones, and one as long as a whole name
ExtLens == 0..MaxExt \cup {MaxStem}

Names ==
    {Name(stem, ext, dotted, inner, bad) :
        stem \in 0..MaxStem, ext \in ExtLens, dotted \in BOOLEAN, inner \in BOOLEAN,
        bad \in {"", "/", "?"}}

\* position of the last dot of a name, 0 without one
LastDot(f) == Max({0} \cup {j \in 1..Len(f) : f[j] = "."})

\* what follows the last dot: filename.split('.')[-1]
Extension(f) == SubSeq(f, LastDot(f) + 1, Len(f))

\* _sanitize_filename: re.sub, then for more than 100 characters
\* '.'.join(name_parts[:-1])[:95] + '.' + name_parts[-1], or [:100] without a dot
sanitize_filename(f) ==
    LET sub == [j \in 1..Len(f) |-> IF f[j] \in Forbidden THEN "_" ELSE f[j]]
    IN  IF Len(sub) > 100
        THEN IF LastDot(sub) > 0
             THEN Take(SubSeq(sub, 1, LastDot(sub) - 1), 95) \o <<".">> \o Extension(sub)
             ELSE Take(sub, 100)
        ELSE sub

\* the characters of the search terms of the inputs
TermChars == {"g", "i", " ", ","}

SearchTerms == UNION {[1..n -> TermChars] : n \in 0..MaxTerm}

\* str.split(sep): the pieces between the separators, one more than separators
RECURSIVE Split(_, _)
Split(str, sep) ==
    IF \E j \in 1..Len(str) : str[j] = sep
    THEN LET p == CHOOSE j \in 1..Len(str) :
                      str[j] = sep /\ \A h \in 1..(j - 1) : str[h] # sep
         IN  <<SubSeq(str, 1, p - 1)>> \o Split(SubSeq(str, p + 1, Len(str)), sep)
    ELSE <<str>>

\* faulty variant: the terms are not trimmed
StripNone(str) == str

\* str.strip()
RECURSIVE Strip(_)
Strip(str) ==
    IF str = <<>> THEN str
    ELSE IF Head(str) = " " THEN Strip(Tail(str))
    ELSE IF str[Len(str)] = " " THEN Strip(SubSeq(str, 1, Len(str) - 1))
    ELSE str

\* f'"{k}"'
Quoted(k) == <<"\"">> \o k \o <<"\"">>

\* sep.join(strs)
RECURSIVE Join(_, _)
Join(strs, sep) ==
    IF strs = <<>> THEN <<>>
    ELSE IF Len(strs) = 1 THEN strs[1]
    ELSE strs[1] \o sep \o Join(Tail(strs), sep)

Or == <<" ", "O", "R", " ">>

\* search_emails: what the search term adds to query_parts
KeywordQuery(search_term) ==
    IF search_term = <<>> THEN <<>>
    ELSE IF \E j \in 1..Len(search_term) : search_term[j] = ","
    THEN LET split == Split(search_term, ",")
             keywords == [j \in 1..Len(split) |-> Strip(split[j])]
             kept == SelectSeq(keywords, LAMBDA k : k # <<>>)
             keyword_query == Join([j \in 1..Len(kept) |-> Quoted(kept[j])], Or)
         IN  IF keyword_query # <<>>
             THEN << <<"(">> \o keyword_query \o <<")">> >>
             ELSE <<>>
    ELSE <<Quoted(search_term)>>

\* set().union(*(row.keys() for row in rows))
KeyUnion(rs) == UNION {DOMAIN rs[j] : j \in 1..Len(rs)}

\* _save_to_sheets: existing headers, then the new ones that are absent
Reconcile(existing_headers, new_headers) ==
    IF existing_headers # <<>>
    THEN existing_headers \o SelectSeq(new_headers, LAMBDA h : h \notin Range(existing_headers))
    ELSE new_headers

\* _save_to_sheets: [[row.get(h, "") for h in all_headers] for row in rows]
Values(rs, hs) ==
    [j \in 1..Len(rs) |->
        [c \in 1..Len(hs) |-> IF hs[c] \in DOMAIN rs[j] THEN rs[j][hs[c]] ELSE ""]]

\* _get_sheet_headers: values.get of A1:Z1
get_sheet_headers(s) == Take(Header(s), LastLetterCol)

\* _update_headers: chr(64 + len(headers)), the end column of the range, as the
\* code points of its characters
range_end(n) == <<64 + n>>

\* _update_headers: the range A1:{chr(64 + n)}1 is a range only up to column Z
HeaderRangeValid(n) == n >= 1 /\ n <= LastLetterCol

\* values.update of row 1 over the columns 1..Len(hs)
UpdatedSheet(s, hs) ==
    IF Len(s) = 0 THEN <<hs>>
    ELSE [s EXCEPT ![1] = hs \o SubSeq(@, Len(hs) + 1, Len(@))]

\* faulty variant: the append-only strategy, no row is located
LocateRowsNone(s, file_id) == <<>>

\* faulty variant: enumerate(data_rows, 1), the header row counted as a data row
LocateRowsFromOne(s, file_id) ==
    LET col == IndexOf(Header(s), "drive_file_id")
    IN  IF col = 0 THEN <<>>
        ELSE SelectSeq([j \in 1..(Len(s) - 1) |-> j],
                       LAMBDA r : Len(s[r + 1]) >= col /\ s[r + 1][col] = file_id)

\* _replace_rows_for_file: 1-indexed numbers of the rows tagged with file_id,
\* in sheet order; <<>> when the sheet has no drive_file_id column
LocateRows(s, file_id) ==
    LET col == IndexOf(Header(s), "drive_file_id")
    IN  IF col = 0 THEN <<>>
        ELSE SelectSeq([j \in 1..(Len(s) - 1) |-> j + 1],
                       LAMBDA r : Len(s[r]) >= col /\ s[r][col] = file_id)

\* rows_to_delete.sort(reverse=True)
RECURSIVE SortDescending(_)
SortDescending(s) ==
    IF Len(s) = 0 THEN <<>>
    ELSE LET m == Max(Range(s))
         IN  <<m>> \o SortDescending(SelectSeq(s, LAMBDA x : x # m))

\* faulty variant: the requests in the order the rows were found, lowest first
DeleteRequestsUnsorted(located) == [j \in 1..Len(located) |-> located[j] - 1]

\* faulty variant: startIndex = row_idx, the range of the row below
DeleteRequestsRowBelow(located) ==
    LET sorted == SortDescending(located)
    IN  [j \in 1..Len(sorted) |-> sorted[j]]

\* the deleteDimension requests: startIndex = row_idx - 1 (endIndex = row_idx)
DeleteRequests(located) ==
    LET sorted == SortDescending(located)
    IN  [j \in 1..Len(sorted) |-> sorted[j] - 1]

\* batchUpdate applies the requests one after the other, each to the sheet the
\* previous one left
RemoveAt(s, n) ==
    IF n >= 1 /\ n <= Len(s) THEN SubSeq(s, 1, n - 1) \o SubSeq(s, n + 1, Len(s)) ELSE s

RECURSIVE ApplyDeletes(_, _)
ApplyDeletes(s, reqs) ==
    IF Len(reqs) = 0 THEN s
    ELSE ApplyDeletes(RemoveAt(s, reqs[1] + 1), Tail(reqs))

\* values.append: the rows go below the last row of the table
AppendedSheet(s, vals) == s \o [j \in 1..Len(vals) |-> TrimRow(vals[j])]

\* ids of the rows of the sheet (process_pdf_workflow: existing_file_ids)
ExistingIds(s) ==
    LET col == IndexOf(Header(s), "drive_file_id")
    IN  IF col = 0 THEN {}
        ELSE {s[r][col] : r \in {q \in 2..Len(s) : Len(s[q]) >= col /\ s[q][col] # ""}}

\* number of data rows tagged with id d in the drive_file_id column
CountTagged(s, d) == Len(LocateRows(s, d))

\* ------------------------------------------------------------------- Init
NoLocals ==
    /\ rows = <<>>
    /\ sheet_id_ok = TRUE
    /\ all_headers = <<>>
    /\ rows_to_delete = <<>>
    /\ attempt = 1

\* no run has reported yet
NoResult == [success |-> FALSE, processed |-> -1]

\* the 'done' result
Done(success, processed) == [success |-> success, processed |-> processed]

\* _process_extracted_data has not been called
AdapterIdle ==
    /\ extracted_data = NoPayload
    /\ adapter_rows = <<>>
    /\ adapter_warned = FALSE
    /\ adapter_done = FALSE

\* _sanitize_filename has not been called
SanitizeIdle ==
    /\ raw_name = <<>>
    /\ cleaned = <<>>
    /\ sanitize_done = FALSE

\* search_emails has not been called on its own
QueryIdle ==
    /\ keyword_expr = <<>>
    /\ keyword_parts = <<>>
    /\ query_done = FALSE

\* no worker thread has been started
ProgressIdle ==
    /\ workflow_type = "gmail"
    /\ runner = "ended"
    /\ invocation = "none"
    /\ wpc = "none"
    /\ pending = <<>>
    /\ todo = 0
    /\ count = 0
    /\ progress_queue = <<>>
    /\ upc = "finished"
    /\ seen = <<>>
    /\ put_log = <<>>
    /\ dones = 0
    /\ late = FALSE

\* no listing is run on its own
ListingIdle ==
    /\ listing_kind = "drive"
    /\ matching = <<>>
    /\ backend_page = 1
    /\ max_results = 1
    /\ page_token = -1
    /\ all_files = <<>>
    /\ listed = TRUE

\* no date window is computed on its own
WindowIdle ==
    /\ time_now = 0
    /\ days_back = 1
    /\ created = 0
    /\ drive_lower = 0
    /\ mail_lower = 0
    /\ window_done = TRUE

\* no second instance: nothing overlaps
OverlapIdle ==
    /\ shared_sheet = <<>>
    /\ shared_state = [emails |-> {}, pdfs |-> {}]
    /\ inst_variant = "app"
    /\ inst_pc = [p \in Procs |-> "ended"]
    /\ inst_pdfs = [p \in Procs |-> {}]
    /\ inst_i = [p \in Procs |-> 1]
    /\ inst_existing = [p \in Procs |-> {}]
    /\ inst_rows_to_delete = [p \in Procs |-> <<>>]

AsideIdle ==
    /\ ProgressIdle
    /\ ListingIdle
    /\ WindowIdle
    /\ OverlapIdle

PureIdle ==
    /\ AdapterIdle
    /\ SanitizeIdle
    /\ QueryIdle
    /\ AsideIdle

\* __init__ with no state file yet
StateInit ==
    /\ state_file = [emails |-> {}, pdfs |-> {}]
    /\ processed_pdfs = {}
    /\ processed_emails = {}
    /\ faults = 0
    /\ kills = 0
    /\ runs = 0
    /\ dirty = FALSE
    /\ result = NoResult
    /\ listing_failed = FALSE
    /\ precondition = "ok"

PdfIdle ==
    /\ pc = "idle"
    /\ pdf_files = <<>>
    /\ i = 1
    /\ existing_file_ids = {}
    /\ NoLocals
    /\ processed_count = 0
    /\ wfault = FALSE
    /\ k_before = 0
    /\ appended_ok = ExistingIds(sheet)
    /\ committed = {}
    /\ del_req = <<>>
    /\ sheet_at_start = sheet
    /\ append_calls = 0
    /\ append_oks = 0
    /\ append_ret = "none"
    /\ extract_calls = 0
    /\ temp_files = {}

MailIdle ==
    /\ gpc = "idle"
    /\ emails = <<>>
    /\ e = 1
    /\ part = 1
    /\ base_folder_id = 0
    /\ search_folder_id = 0
    /\ type_folder_id = 0
    /\ attachment_count = 0
    /\ total_attachments = 0
    /\ path_fault = FALSE
    /\ folders_at_fault = 0
    /\ uploads_at_fault = 0
    /\ counted = {}
    /\ faulted = {}
    /\ marks = {}
    /\ delivered = {}
    /\ run_faulted = FALSE

RouterIdle ==
    /\ rpc = [p \in Procs |-> "idle"]
    /\ rreq = [p \in Procs |-> Folder("", 0)]
    /\ rbefore = [p \in Procs |-> 0]
    /\ rcreates = [p \in Procs |-> 0]
    /\ calls = <<>>

Init ==
    /\ sheet \in InitSheets
    /\ config \in [variant : {"app", "mb"}, max_files : 1..Len(Listing),
                   workflow_type : {"pdf"}]
    /\ items \in {f \in [Docs -> 0..MaxItems] : f["d2"] = 1}
    /\ StateInit
    /\ PureIdle
    /\ PdfIdle
    /\ folders = <<ConfiguredFolder>>
    /\ uploads = <<>>
    /\ gmail_config = [gdrive_folder_id |-> 1, search_term |-> "grn"]
    /\ MailIdle
    /\ RouterIdle

\* ------------------------------------------------------- the PDF workflow
\* the disturbances explored so far: a failed call counts once, a kill twice
Disturbance == faults + 2 * kills

\* a backend call that is made to raise (ok = FALSE) uses up one fault
Call(ok) ==
    /\ ok \/ Disturbance + 1 <= MaxFaults
    /\ faults' = IF ok THEN faults ELSE faults + 1

ResetLocals ==
    /\ rows' = <<>>
    /\ sheet_id_ok' = TRUE
    /\ all_headers' = <<>>
    /\ rows_to_delete' = <<>>
    /\ attempt' = 1
    /\ wfault' = FALSE
    /\ k_before' = 0
    /\ del_req' = <<>>
    /\ append_calls' = 0
    /\ append_oks' = 0
    /\ append_ret' = "none"
    /\ extract_calls' = 0

\* faulty variant: the loop is left at the first item that ends
NextFileEndsRun ==
    /\ i' = i
    /\ pc' = "idle"
    /\ ResetLocals

\* "continue": on to the next candidate
NextFile ==
    /\ i' = i + 1
    /\ pc' = "loop"
    /\ ResetLocals

file_id == pdf_files[i]

\* process_pdf_workflow: _list_drive_files, the max_files cap, the empty-list exit
process_pdf_workflow(ok) ==
    /\ config.workflow_type = "pdf"
    /\ pc = "idle"
    /\ gpc = "idle"
    /\ runs < MaxRuns
    /\ Call(ok)
    /\ runs' = runs + 1
    /\ dirty' = (dirty \/ ~ok)
    /\ pdf_files' = IF ok THEN Take(Listing, config.max_files) ELSE <<>>
    /\ pc' = IF pdf_files' = <<>> THEN "idle"
             ELSE IF config.variant = "app" THEN "existing" ELSE "loop"
    /\ i' = 1
    /\ existing_file_ids' = {}
    /\ processed_count' = 0
    /\ sheet_at_start' = sheet
    /\ UNCHANGED <<sheet, state_file, processed_pdfs, processed_emails, config, items,
                   rows, sheet_id_ok, all_headers, rows_to_delete, attempt,
                   kills, wfault, k_before, appended_ok, committed, del_req>>
    /\ UNCHANGED mailSide
    /\ listing_failed' = ~ok
    /\ precondition' = "ok"
    /\ result' = IF pdf_files' = <<>> THEN Done(TRUE, 0) ELSE NoResult
    /\ UNCHANGED <<writeHistory, temp_files>>

\* process_pdf_workflow (app.py): the ids already in the sheet
ReadExisting(ok) ==
    /\ pc = "existing"
    /\ Call(ok)
    /\ dirty' = (dirty \/ ~ok)
    /\ existing_file_ids' = IF ok THEN ExistingIds(sheet) ELSE {}
    /\ pc' = "loop"
    /\ UNCHANGED <<sheet, state_file, processed_pdfs, processed_emails, config, items,
                   pdf_files, i, rows, sheet_id_ok, all_headers, rows_to_delete, attempt,
                   processed_count, kills, runs, wfault, k_before, appended_ok,
                   committed, del_req, sheet_at_start>>
    /\ UNCHANGED mailSide
    /\ UNCHANGED <<writeHistory, temp_files, report>>

\* faulty variant: only the ids found in the sheet are skipped
SkippedInSheetOnly(d) == config.variant = "app" /\ d \in existing_file_ids

\* the loop's two skips
Skipped(d) ==
    \/ d \in processed_pdfs
    \/ config.variant = "app" /\ d \in existing_file_ids

\* faulty variant: a candidate that is skipped counts as processed
SkipFileCounted ==
    /\ pc = "loop"
    /\ i <= Len(pdf_files)
    /\ Skipped(file_id)
    /\ i' = i + 1
    /\ processed_count' = processed_count + 1
    /\ UNCHANGED <<sheet, state_file, processed_pdfs, processed_emails, config, items, pc,
                   pdf_files, existing_file_ids, rows, sheet_id_ok, all_headers,
                   rows_to_delete, attempt, history>>
    /\ UNCHANGED mailSide
    /\ UNCHANGED <<writeHistory, temp_files, report>>

\* the loop's `continue` for a candidate that is skipped
SkipFile ==
    /\ pc = "loop"
    /\ i <= Len(pdf_files)
    /\ Skipped(file_id)
    /\ i' = i + 1
    /\ UNCHANGED <<sheet, state_file, processed_pdfs, processed_emails, config, items, pc,
                   pdf_files, existing_file_ids, rows, sheet_id_ok, all_headers,
                   rows_to_delete, attempt, processed_count, history>>
    /\ UNCHANGED mailSide
    /\ UNCHANGED <<writeHistory, temp_files, report>>

\* faulty variant: success only when every candidate was processed
FinishRunAllOrNothing ==
    /\ pc = "loop"
    /\ i > Len(pdf_files)
    /\ pc' = "idle"
    /\ UNCHANGED <<sheet, state_file, processed_pdfs, processed_emails, config, items,
                   pdfLocals, history>>
    /\ UNCHANGED mailSide
    /\ result' = Done(processed_count = Len(pdf_files), processed_count)
    /\ UNCHANGED <<writeHistory, temp_files, listing_failed, precondition>>

\* the end of the loop: the 'done' result with success True
FinishRun ==
    /\ pc = "loop"
    /\ i > Len(pdf_files)
    /\ pc' = "idle"
    /\ UNCHANGED <<sheet, state_file, processed_pdfs, processed_emails, config, items,
                   pdfLocals, history>>
    /\ UNCHANGED mailSide
    /\ result' = Done(TRUE, processed_count)
    /\ UNCHANGED <<writeHistory, temp_files, listing_failed, precondition>>

\* _download_from_drive: b"" on failure, and the loop continues
download_from_drive(ok) ==
    /\ pc = "loop"
    /\ i <= Len(pdf_files)
    /\ ~Skipped(file_id)
    /\ Call(ok)
    /\ dirty' = (dirty \/ ~ok)
    /\ IF ok THEN /\ pc' = "extract"
                  /\ temp_files' = temp_files \cup {file_id}
                  /\ UNCHANGED <<i, rows, sheet_id_ok, all_headers, rows_to_delete,
                                 attempt, wfault, k_before, del_req, writeHistory>>
             ELSE NextFile /\ UNCHANGED temp_files
    /\ UNCHANGED <<sheet, state_file, processed_pdfs, processed_emails, config, items,
                   pdf_files, existing_file_ids, processed_count, kills, runs,
                   appended_ok, committed, sheet_at_start>>
    /\ UNCHANGED mailSide
    /\ UNCHANGED report

\* agent.extract and _process_extracted_data; an exception or zero rows skip the item
extract(ok) ==
    /\ pc = "extract"
    /\ Call(ok)
    /\ dirty' = (dirty \/ ~ok)
    /\ LET rs == process_extracted_data(file_id, items[file_id], Stamp(runs))
       IN  IF ok /\ rs # <<>>
           THEN /\ rows' = rs
                /\ pc' = "sheetid"
                /\ extract_calls' = extract_calls + 1
                /\ UNCHANGED <<i, sheet_id_ok, all_headers, rows_to_delete, attempt,
                               wfault, k_before, del_req, append_calls, append_oks,
                               append_ret>>
           ELSE NextFile
    /\ temp_files' = IF ok THEN temp_files \ {file_id} ELSE temp_files
    /\ UNCHANGED <<sheet, state_file, processed_pdfs, processed_emails, config, items,
                   pdf_files, existing_file_ids, processed_count, kills, runs,
                   appended_ok, committed, sheet_at_start>>
    /\ UNCHANGED mailSide
    /\ UNCHANGED report

\* _get_sheet_id, evaluated as an argument of _save_to_sheets: 0 on failure, which
\* is the tab's id only when the tab is the workbook's first
get_sheet_id(ok) ==
    /\ pc = "sheetid"
    /\ Call(ok)
    /\ dirty' = (dirty \/ ~ok)
    /\ wfault' = ~ok
    /\ sheet_id_ok' \in (IF ok THEN {TRUE} ELSE BOOLEAN)
    /\ k_before' = CountTagged(sheet, file_id)
    /\ pc' = "headers"
    /\ UNCHANGED <<sheet, state_file, processed_pdfs, processed_emails, config, items,
                   pdf_files, i, existing_file_ids, rows, all_headers, rows_to_delete,
                   attempt, processed_count, kills, runs, appended_ok, committed,
                   del_req, sheet_at_start>>
    /\ UNCHANGED mailSide
    /\ UNCHANGED <<writeHistory, temp_files, report>>

\* _save_to_sheets: _get_sheet_headers ([] on failure) and the reconciliation
save_to_sheets(ok) ==
    /\ pc = "headers"
    /\ Call(ok)
    /\ dirty' = (dirty \/ ~ok)
    /\ wfault' = (wfault \/ ~ok)
    /\ LET existing_headers == IF ok THEN get_sheet_headers(sheet) ELSE <<>>
       IN  /\ \E new_headers \in Perms(KeyUnion(rows)) :
                all_headers' = Reconcile(existing_headers, new_headers)
           /\ pc' = IF existing_headers = <<>> \/ Len(all_headers') > Len(existing_headers)
                    THEN "update" ELSE "locate"
    /\ UNCHANGED <<sheet, state_file, processed_pdfs, processed_emails, config, items,
                   pdf_files, i, existing_file_ids, rows, sheet_id_ok, rows_to_delete,
                   attempt, processed_count, kills, runs, k_before, appended_ok,
                   committed, del_req, sheet_at_start>>
    /\ UNCHANGED mailSide
    /\ UNCHANGED <<writeHistory, temp_files, report>>

\* _update_headers: its failure is logged and its result is not looked at
update_headers(ok) ==
    /\ pc = "update"
    /\ Call(ok)
    /\ LET done == ok /\ HeaderRangeValid(Len(all_headers))
       IN  /\ sheet' = IF done THEN UpdatedSheet(sheet, all_headers) ELSE sheet
           /\ dirty' = (dirty \/ ~done)
           /\ wfault' = (wfault \/ ~done)
    /\ pc' = "locate"
    /\ UNCHANGED <<state_file, processed_pdfs, processed_emails, config, items,
                   pdf_files, i, existing_file_ids, rows, sheet_id_ok, all_headers,
                   rows_to_delete, attempt, processed_count, kills, runs,
                   k_before, appended_ok, committed, del_req, sheet_at_start>>
    /\ UNCHANGED mailSide
    /\ UNCHANGED <<writeHistory, temp_files, report>>

\* _replace_rows_for_file: _get_sheet_data ([] on failure) and the scan for the
\* rows of file_id; an empty read or a missing drive_file_id column go to the append
replace_rows_locate(ok) ==
    /\ pc = "locate"
    /\ Call(ok)
    /\ dirty' = (dirty \/ ~ok)
    /\ wfault' = (wfault \/ ~ok)
    /\ LET values == IF ok THEN sheet ELSE <<>>
       IN  rows_to_delete' = LocateRows(values, file_id)
    /\ pc' = IF rows_to_delete' # <<>> THEN "delete" ELSE "append"
    /\ attempt' = 1
    /\ UNCHANGED <<sheet, state_file, processed_pdfs, processed_emails, config, items,
                   pdf_files, i, existing_file_ids, rows, sheet_id_ok, all_headers,
                   processed_count, kills, runs, k_before, appended_ok, committed,
                   del_req, sheet_at_start>>
    /\ UNCHANGED mailSide
    /\ UNCHANGED <<writeHistory, temp_files, report>>

\* _replace_rows_for_file: the batched delete; its exception ends the write
\* (return False) before the append. With the sheet id of another tab the
\* request removes rows there, not here.
replace_rows_delete(ok) ==
    /\ pc = "delete"
    /\ Call(ok)
    /\ dirty' = (dirty \/ ~ok)
    /\ wfault' = (wfault \/ ~ok)
    /\ IF ok
       THEN /\ del_req' = DeleteRequests(rows_to_delete)
            /\ sheet' = IF sheet_id_ok THEN ApplyDeletes(sheet, del_req') ELSE sheet
            /\ pc' = "append"
       ELSE /\ pc' = "commit"
            /\ UNCHANGED <<sheet, del_req>>
    /\ UNCHANGED <<state_file, processed_pdfs, processed_emails, config, items,
                   pdf_files, i, existing_file_ids, rows, sheet_id_ok, all_headers,
                   rows_to_delete, attempt, processed_count, kills, runs, k_before,
                   appended_ok, committed, sheet_at_start>>
    /\ UNCHANGED mailSide
    /\ UNCHANGED <<writeHistory, temp_files, report>>

\* faulty variant: the loop goes on to its next attempt after a success
append_keeps_trying(ok) ==
    /\ pc = "append"
    /\ Call(ok)
    /\ dirty' = (dirty \/ ~ok)
    /\ wfault' = (wfault \/ ~ok)
    /\ append_calls' = append_calls + 1
    /\ append_oks' = IF ok THEN append_oks + 1 ELSE append_oks
    /\ append_ret' = IF ok THEN "True" ELSE IF attempt < max_retries THEN "none" ELSE "False"
    /\ IF ok
       THEN /\ sheet' = AppendedSheet(sheet, Values(rows, all_headers))
            /\ appended_ok' = appended_ok \cup {file_id}
            /\ IF attempt < max_retries
               THEN attempt' = attempt + 1 /\ pc' = "append"
               ELSE attempt' = attempt /\ pc' = "commit"
       ELSE /\ IF attempt < max_retries
               THEN attempt' = attempt + 1 /\ pc' = "append"
               ELSE attempt' = attempt /\ pc' = "commit"
            /\ UNCHANGED <<sheet, appended_ok>>
    /\ UNCHANGED <<state_file, processed_pdfs, processed_emails, config, items,
                   pdf_files, i, existing_file_ids, rows, sheet_id_ok, all_headers,
                   rows_to_delete, processed_count, kills, runs, k_before,
                   committed, del_req, sheet_at_start>>
    /\ UNCHANGED mailSide
    /\ UNCHANGED <<extract_calls, temp_files, report>>

\* _append_to_google_sheet: one attempt of the retry loop
append_to_google_sheet(ok) ==
    /\ pc = "append"
    /\ Call(ok)
    /\ dirty' = (dirty \/ ~ok)
    /\ wfault' = (wfault \/ ~ok)
    /\ append_calls' = append_calls + 1
    /\ append_oks' = IF ok THEN append_oks + 1 ELSE append_oks
    /\ append_ret' = IF ok THEN "True" ELSE IF attempt < max_retries THEN "none" ELSE "False"
    /\ IF ok
       THEN /\ sheet' = AppendedSheet(sheet, Values(rows, all_headers))
            /\ appended_ok' = appended_ok \cup {file_id}
            /\ pc' = "commit"
            /\ UNCHANGED attempt
       ELSE /\ IF attempt < max_retries
               THEN attempt' = attempt + 1 /\ pc' = "append"
               ELSE attempt' = attempt /\ pc' = "commit"
            /\ UNCHANGED <<sheet, appended_ok>>
    /\ UNCHANGED <<state_file, processed_pdfs, processed_emails, config, items,
                   pdf_files, i, existing_file_ids, rows, sheet_id_ok, all_headers,
                   rows_to_delete, processed_count, kills, runs, k_before,
                   committed, del_req, sheet_at_start>>
    /\ UNCHANGED mailSide
    /\ UNCHANGED <<extract_calls, temp_files, report>>

\* process_pdf_workflow after _save_to_sheets returned (it returns nothing and
\* catches its own exceptions): count, mark processed, _save_processed_state
\* (whose failure is logged only)
CommitFileGuard == pc = "commit"

CommitFile(ok) ==
    /\ CommitFileGuard
    /\ Call(ok)
    /\ dirty' = (dirty \/ ~ok)
    /\ processed_count' = processed_count + 1
    /\ processed_pdfs' = processed_pdfs \cup {file_id}
    /\ IF ok
       THEN /\ state_file' = [emails |-> processed_emails, pdfs |-> processed_pdfs']
            /\ committed' = committed \cup processed_pdfs'
       ELSE UNCHANGED <<state_file, committed>>
    /\ NextFile
    /\ UNCHANGED <<sheet, processed_emails, config, items, pdf_files,
                   existing_file_ids, kills, runs, appended_ok, sheet_at_start>>
    /\ UNCHANGED mailSide
    /\ UNCHANGED <<temp_files, report>>

\* the process is killed during a run; the next instance loads the state file
\* (__init__, _load_processed_state)
Kill ==
    /\ pc # "idle"
    /\ kills < MaxKills
    /\ Disturbance + 2 <= MaxFaults
    /\ kills' = kills + 1
    /\ processed_pdfs' = state_file.pdfs
    /\ processed_emails' = state_file.emails
    /\ pc' = "idle"
    /\ pdf_files' = <<>>
    /\ i' = 1
    /\ existing_file_ids' = {}
    /\ processed_count' = 0
    /\ ResetLocals
    /\ UNCHANGED <<sheet, state_file, config, items, faults, runs, dirty, appended_ok,
                   committed, sheet_at_start>>
    /\ UNCHANGED mailSide
    /\ UNCHANGED <<temp_files, report>>

Next ==
    \/ \E ok \in BOOLEAN : process_pdf_workflow(ok)
    \/ \E ok \in BOOLEAN : ReadExisting(ok)
    \/ SkipFile
    \/ FinishRun
    \/ \E ok \in BOOLEAN : download_from_drive(ok)
    \/ \E ok \in BOOLEAN : extract(ok)
    \/ \E ok \in BOOLEAN : get_sheet_id(ok)
    \/ \E ok \in BOOLEAN : save_to_sheets(ok)
    \/ \E ok \in BOOLEAN : update_headers(ok)
    \/ \E ok \in BOOLEAN : replace_rows_locate(ok)
    \/ \E ok \in BOOLEAN : replace_rows_delete(ok)
    \/ \E ok \in BOOLEAN : append_to_google_sheet(ok)
    \/ \E ok \in BOOLEAN : CommitFile(ok)
    \/ Kill

Spec == Init /\ [][Next]_vars

\* ------------------------------------------------------ the folder router
\* faulty variant: the listing finds nothing
FolderQueryNone(fs, name, parent) == <<>>

\* _create_drive_folder, the listing: the ids of the folders of that name,
\* within the parent only when the parent is truthy (an unchanged store is
\* listed in the same order each time: here the order of creation)
FolderQuery(fs, name, parent) ==
    SelectSeq([id \in 1..Len(fs) |-> id],
              LAMBDA id : fs[id].name = name /\ (parent # 0 => fs[id].parent = parent))

\* _create_drive_folder, the create call: 'parents' is set only when truthy
create_drive_folder(fs, name, parent) == Append(fs, Folder(name, parent))

\* what the listing call of _create_drive_folder leads to
ListOutcome(ok, name, parent) ==
    IF ~ok THEN "failed"
    ELSE IF FolderQuery(folders, name, parent) # <<>> THEN "found" ELSE "absent"

\* existing.get('files')[0]['id']
FirstFound(name, parent) == FolderQuery(folders, name, parent)[1]

\* ----------------------------------------------------- the Gmail workflow
message_id == emails[e]
filename == Attachments(message_id)[part]

\* search_folder_name = search_term if search_term else "all-attachments"
search_folder_name == IF gmail_config.search_term # "" THEN gmail_config.search_term
                      ELSE "all-attachments"

file_type_folder == classify_extension(filename)

\* a folder of the attachment's path did not resolve
PathFault ==
    /\ path_fault' = TRUE
    /\ folders_at_fault' = IF path_fault THEN folders_at_fault ELSE Len(folders)
    /\ uploads_at_fault' = IF path_fault THEN uploads_at_fault ELSE Len(uploads)
    /\ faulted' = faulted \cup {part}
    /\ run_faulted' = TRUE

\* on to the next part of the payload
NextPart ==
    /\ part' = part + 1
    /\ gpc' = "part"
    /\ search_folder_id' = 0
    /\ type_folder_id' = 0

\* process_gmail_workflow: search_emails ([] on failure), the empty-result exit
search_emails(ok) ==
    /\ config.workflow_type = "gmail"
    /\ gpc = "idle"
    /\ pc = "idle"
    /\ runs < MaxRuns
    /\ Call(ok)
    /\ runs' = runs + 1
    /\ dirty' = (dirty \/ ~ok)
    /\ emails' = IF ok THEN Mailbox ELSE <<>>
    /\ gpc' = IF emails' = <<>> THEN "idle" ELSE "base_list"
    /\ e' = 1
    /\ part' = 1
    /\ base_folder_id' = 0
    /\ search_folder_id' = 0
    /\ type_folder_id' = 0
    /\ attachment_count' = 0
    /\ path_fault' = FALSE
    /\ counted' = {}
    /\ faulted' = {}
    /\ run_faulted' = FALSE
    /\ UNCHANGED <<state_file, processed_emails, drive, gmail_config, folders_at_fault,
                   uploads_at_fault, marks, delivered, routerVars, pdfSide>>
    /\ total_attachments' = 0
    /\ listing_failed' = ~ok
    /\ precondition' = "ok"
    /\ result' = IF emails' = <<>> THEN Done(TRUE, 0) ELSE NoResult

\* the base folder, listing call; a base folder that does not resolve ends the
\* run with success False
base_folder_list(ok) ==
    /\ gpc = "base_list"
    /\ Call(ok)
    /\ dirty' = (dirty \/ ~ok)
    /\ LET out == ListOutcome(ok, "Gmail_Attachments", gmail_config.gdrive_folder_id)
       IN  /\ base_folder_id' = IF out = "found"
                                THEN FirstFound("Gmail_Attachments", gmail_config.gdrive_folder_id)
                                ELSE 0
           /\ gpc' = CASE out = "found" -> "loop"
                       [] out = "absent" -> "base_create"
                       [] OTHER -> "idle"
    /\ UNCHANGED <<state_file, processed_emails, drive, gmail_config, emails, e, part,
                   search_folder_id, type_folder_id, attachment_count, mailHistory,
                   runs, routerVars, pdfSide>>
    /\ result' = IF gpc' = "idle" THEN Done(FALSE, 0) ELSE result
    /\ precondition' = IF gpc' = "idle" THEN "base_folder" ELSE precondition
    /\ UNCHANGED <<total_attachments, listing_failed>>

\* the base folder, create call
base_folder_create(ok) ==
    /\ gpc = "base_create"
    /\ Call(ok)
    /\ dirty' = (dirty \/ ~ok)
    /\ IF ok
       THEN /\ folders' = create_drive_folder(folders, "Gmail_Attachments",
                                              gmail_config.gdrive_folder_id)
            /\ base_folder_id' = Len(folders')
            /\ gpc' = "loop"
       ELSE /\ gpc' = "idle"
            /\ UNCHANGED <<folders, base_folder_id>>
    /\ UNCHANGED <<state_file, processed_emails, uploads, gmail_config, emails, e, part,
                   search_folder_id, type_folder_id, attachment_count, mailHistory,
                   runs, routerVars, pdfSide>>
    /\ result' = IF ok THEN result ELSE Done(FALSE, 0)
    /\ precondition' = IF ok THEN precondition ELSE "base_folder"
    /\ UNCHANGED <<total_attachments, listing_failed>>

\* the loop's skip of a message that is in processed_emails
SkipEmail ==
    /\ gpc = "loop"
    /\ e <= Len(emails)
    /\ message_id \in processed_emails
    /\ e' = e + 1
    /\ UNCHANGED <<state_file, processed_emails, drive, gmail_config, gpc, emails, part,
                   base_folder_id, search_folder_id, type_folder_id, attachment_count,
                   mailHistory, faults, runs, dirty, routerVars, pdfSide>>
    /\ UNCHANGED <<total_attachments, report>>

\* the end of the loop: the 'done' result with success True
FinishGmail ==
    /\ gpc = "loop"
    /\ e > Len(emails)
    /\ gpc' = "idle"
    /\ UNCHANGED <<state_file, processed_emails, drive, gmail_config, mailLocals,
                   mailHistory, faults, runs, dirty, routerVars, pdfSide>>
    /\ result' = Done(TRUE, total_attachments)
    /\ UNCHANGED <<listing_failed, precondition>>

\* messages().get(format='full') (after _get_email_details, whose failure only
\* changes the logged subject): an exception goes to the next message
get_message(ok) ==
    /\ gpc = "loop"
    /\ e <= Len(emails)
    /\ message_id \notin processed_emails
    /\ Call(ok)
    /\ dirty' = (dirty \/ ~ok)
    /\ IF ok THEN gpc' = "part" /\ e' = e ELSE gpc' = "loop" /\ e' = e + 1
    /\ part' = 1
    /\ attachment_count' = 0
    /\ counted' = {}
    /\ faulted' = {}
    /\ path_fault' = FALSE
    /\ UNCHANGED <<state_file, processed_emails, drive, gmail_config, emails,
                   base_folder_id, search_folder_id, type_folder_id, folders_at_fault,
                   uploads_at_fault, marks, delivered, run_faulted, runs, routerVars,
                   pdfSide>>
    /\ UNCHANGED <<total_attachments, report>>

\* _extract_attachments_from_email: attachments().get of the part at hand; an
\* exception is logged and the part yields 0
get_attachment(ok) ==
    /\ gpc = "part"
    /\ part <= Len(Attachments(message_id))
    /\ Call(ok)
    /\ dirty' = (dirty \/ ~ok)
    /\ path_fault' = FALSE
    /\ IF ok THEN gpc' = "search_list" /\ UNCHANGED <<part, search_folder_id, type_folder_id>>
             ELSE NextPart
    /\ UNCHANGED <<state_file, processed_emails, drive, gmail_config, emails, e,
                   base_folder_id, attachment_count, folders_at_fault, uploads_at_fault,
                   faulted, run_faulted, counted, marks, delivered, runs, routerVars,
                   pdfSide>>
    /\ UNCHANGED <<total_attachments, report>>

\* _create_drive_folder(search_folder_name, base_folder_id), listing call; ""
\* on failure, and the code goes on to the type folder
search_folder_list(ok) ==
    /\ gpc = "search_list"
    /\ Call(ok)
    /\ dirty' = (dirty \/ ~ok)
    /\ LET out == ListOutcome(ok, search_folder_name, base_folder_id)
       IN  /\ search_folder_id' = IF out = "found"
                                  THEN FirstFound(search_folder_name, base_folder_id)
                                  ELSE 0
           /\ gpc' = IF out = "absent" THEN "search_create" ELSE "type_list"
           /\ IF out = "failed" THEN PathFault ELSE UNCHANGED faultHistory
    /\ UNCHANGED <<state_file, processed_emails, drive, gmail_config, emails, e, part,
                   base_folder_id, type_folder_id, attachment_count, counted, marks,
                   delivered, runs, routerVars, pdfSide>>
    /\ UNCHANGED <<total_attachments, report>>

\* _create_drive_folder(search_folder_name, base_folder_id), create call
search_folder_create(ok) ==
    /\ gpc = "search_create"
    /\ Call(ok)
    /\ dirty' = (dirty \/ ~ok)
    /\ IF ok
       THEN /\ folders' = create_drive_folder(folders, search_folder_name, base_folder_id)
            /\ search_folder_id' = Len(folders')
            /\ UNCHANGED faultHistory
       ELSE /\ search_folder_id' = 0
            /\ PathFault
            /\ UNCHANGED folders
    /\ gpc' = "type_list"
    /\ UNCHANGED <<state_file, processed_emails, uploads, gmail_config, emails, e, part,
                   base_folder_id, type_folder_id, attachment_count, counted, marks,
                   delivered, runs, routerVars, pdfSide>>
    /\ UNCHANGED <<total_attachments, report>>

\* _create_drive_folder(file_type_folder, search_folder_id), listing call: with
\* search_folder_id = "" the query carries no parent
type_folder_list(ok) ==
    /\ gpc = "type_list"
    /\ Call(ok)
    /\ dirty' = (dirty \/ ~ok)
    /\ LET out == ListOutcome(ok, file_type_folder, search_folder_id)
       IN  /\ type_folder_id' = IF out = "found"
                                THEN FirstFound(file_type_folder, search_folder_id)
                                ELSE 0
           /\ gpc' = IF out = "absent" THEN "type_create" ELSE "exists"
           /\ IF out = "failed" THEN PathFault ELSE UNCHANGED faultHistory
    /\ UNCHANGED <<state_file, processed_emails, drive, gmail_config, emails, e, part,
                   base_folder_id, search_folder_id, attachment_count, counted, marks,
                   delivered, runs, routerVars, pdfSide>>
    /\ UNCHANGED <<total_attachments, report>>

\* _create_drive_folder(file_type_folder, search_folder_id), create call: with
\* search_folder_id = "" the folder has no parent
type_folder_create(ok) ==
    /\ gpc = "type_create"
    /\ Call(ok)
    /\ dirty' = (dirty \/ ~ok)
    /\ IF ok
       THEN /\ folders' = create_drive_folder(folders, file_type_folder, search_folder_id)
            /\ type_folder_id' = Len(folders')
            /\ UNCHANGED faultHistory
       ELSE /\ type_folder_id' = 0
            /\ PathFault
            /\ UNCHANGED folders
    /\ gpc' = "exists"
    /\ UNCHANGED <<state_file, processed_emails, uploads, gmail_config, emails, e, part,
                   base_folder_id, search_folder_id, attachment_count, counted, marks,
                   delivered, runs, routerVars, pdfSide>>
    /\ UNCHANGED <<total_attachments, report>>

\* a file named as the part lies in the folder
FilePresent(folder_id) ==
    \E j \in 1..Len(uploads) : uploads[j] = [name |-> filename, parent |-> folder_id]

\* _file_exists_in_folder: False on any exception, and the backend takes no
\* query or parent with the id ""
file_exists_in_folder(ok) ==
    /\ gpc = "exists"
    /\ Call(ok)
    /\ LET answered == ok /\ type_folder_id # 0
       IN  /\ dirty' = (dirty \/ ~answered)
           /\ IF answered /\ FilePresent(type_folder_id)
              THEN /\ delivered' = delivered \cup {<<message_id, part>>}
                   /\ NextPart
              ELSE /\ gpc' = "upload"
                   /\ UNCHANGED <<delivered, part, search_folder_id, type_folder_id>>
    /\ UNCHANGED <<state_file, processed_emails, drive, gmail_config, emails, e,
                   base_folder_id, attachment_count, counted, marks, faultHistory, runs,
                   routerVars, pdfSide>>
    /\ UNCHANGED <<total_attachments, report>>

\* files().create of the attachment under type_folder_id; processed_count = 1.
\* An exception is logged and the part yields 0.
upload_attachment(ok) ==
    /\ gpc = "upload"
    /\ Call(ok)
    /\ LET done == ok /\ type_folder_id # 0
       IN  /\ dirty' = (dirty \/ ~done)
           /\ IF done
              THEN /\ uploads' = Append(uploads, [name |-> filename, parent |-> type_folder_id])
                   /\ attachment_count' = attachment_count + 1
                   /\ counted' = counted \cup {part}
                   /\ delivered' = delivered \cup {<<message_id, part>>}
              ELSE UNCHANGED <<uploads, attachment_count, counted, delivered>>
    /\ NextPart
    /\ UNCHANGED <<state_file, processed_emails, folders, gmail_config, emails, e,
                   base_folder_id, marks, faultHistory, runs, routerVars, pdfSide>>
    /\ UNCHANGED <<total_attachments, report>>

\* process_gmail_workflow, attachment_count > 0: mark the message processed and
\* _save_processed_state (whose failure is logged only)
MarkEmail(ok) ==
    /\ gpc = "part"
    /\ part > Len(Attachments(message_id))
    /\ attachment_count > 0
    /\ Call(ok)
    /\ dirty' = (dirty \/ ~ok)
    /\ processed_emails' = processed_emails \cup {message_id}
    /\ state_file' = IF ok THEN [emails |-> processed_emails', pdfs |-> processed_pdfs]
                     ELSE state_file
    /\ marks' = marks \cup {[id |-> message_id, counted |-> counted, faulted |-> faulted]}
    /\ e' = e + 1
    /\ gpc' = "loop"
    /\ UNCHANGED <<drive, gmail_config, emails, part, base_folder_id, search_folder_id,
                   type_folder_id, attachment_count, counted, delivered, faultHistory,
                   runs, routerVars, pdfSide>>
    /\ total_attachments' = total_attachments + attachment_count
    /\ UNCHANGED report

\* faulty variant: a message is marked whatever its attachment_count
LeaveEmailMarked ==
    /\ gpc = "part"
    /\ part > Len(Attachments(message_id))
    /\ attachment_count = 0
    /\ e' = e + 1
    /\ gpc' = "loop"
    /\ processed_emails' = processed_emails \cup {message_id}
    /\ UNCHANGED <<state_file, drive, gmail_config, emails, part,
                   base_folder_id, search_folder_id, type_folder_id, attachment_count,
                   mailHistory, faults, runs, dirty, routerVars, pdfSide>>
    /\ UNCHANGED <<total_attachments, report>>

\* process_gmail_workflow, attachment_count = 0: the message is not marked
LeaveEmail ==
    /\ gpc = "part"
    /\ part > Len(Attachments(message_id))
    /\ attachment_count = 0
    /\ e' = e + 1
    /\ gpc' = "loop"
    /\ UNCHANGED <<state_file, processed_emails, drive, gmail_config, emails, part,
                   base_folder_id, search_folder_id, type_folder_id, attachment_count,
                   mailHistory, faults, runs, dirty, routerVars, pdfSide>>
    /\ UNCHANGED <<total_attachments, report>>

\* the checks of process_pdf_workflow before the listing: _check_memory
\* (app.py), LLAMA_AVAILABLE, get_agent returning None, get_agent raising.
\* Each ends the run with success False and 0 processed.
PdfPreconditions == {"memory", "library", "agent", "agent_lookup"}

\* faulty variant: the exit reports the result of a run that found nothing
AbortPdfWorkflowAsEmpty(why) ==
    /\ config.workflow_type = "pdf"
    /\ pc = "idle"
    /\ gpc = "idle"
    /\ runs < MaxRuns
    /\ why = "memory" => config.variant = "app"
    /\ precondition' = why
    /\ result' = Done(TRUE, 0)
    /\ UNCHANGED <<sheet, state_file, processed_pdfs, processed_emails, config, items, pc,
                   pdfLocals, history, mailSide, writeHistory, temp_files, listing_failed>>

AbortPdfWorkflow(why) ==
    /\ config.workflow_type = "pdf"
    /\ pc = "idle"
    /\ gpc = "idle"
    /\ runs < MaxRuns
    /\ why = "memory" => config.variant = "app"
    /\ precondition' = why
    /\ result' = Done(FALSE, 0)
    /\ UNCHANGED <<sheet, state_file, processed_pdfs, processed_emails, config, items, pc,
                   pdfLocals, history, mailSide, writeHistory, temp_files, listing_failed>>

\* process_gmail_workflow: _check_memory fails (app.py)
AbortGmailWorkflow ==
    /\ config.workflow_type = "gmail"
    /\ gpc = "idle"
    /\ pc = "idle"
    /\ runs < MaxRuns
    /\ config.variant = "app"
    /\ precondition' = "memory"
    /\ result' = Done(FALSE, 0)
    /\ UNCHANGED <<sheet, state_file, processed_pdfs, processed_emails, config, items, pc,
                   pdfLocals, history, mailSide, writeHistory, temp_files, listing_failed>>

\* the process is killed during a Gmail run; the next instance loads the state
\* file (__init__, _load_processed_state)
KillGmail ==
    /\ gpc # "idle"
    /\ kills < MaxKills
    /\ Disturbance + 2 <= MaxFaults
    /\ kills' = kills + 1
    /\ processed_pdfs' = state_file.pdfs
    /\ processed_emails' = state_file.emails
    /\ gpc' = "idle"
    /\ emails' = <<>>
    /\ e' = 1
    /\ part' = 1
    /\ base_folder_id' = 0
    /\ search_folder_id' = 0
    /\ type_folder_id' = 0
    /\ attachment_count' = 0
    /\ total_attachments' = 0
    /\ path_fault' = FALSE
    /\ counted' = {}
    /\ faulted' = {}
    /\ UNCHANGED <<sheet, state_file, config, items, pc, pdfLocals, faults, runs, dirty,
                   wfault, k_before, appended_ok, committed, del_req, sheet_at_start,
                   drive, gmail_config, folders_at_fault, uploads_at_fault, marks,
                   delivered, run_faulted, routerVars, writeHistory, temp_files, report,
                   pureVars>>

InitGmail ==
    /\ sheet = FreshSheet
    /\ config = [variant |-> "app", max_files |-> 1, workflow_type |-> "gmail"]
    /\ items = [d \in Docs |-> 1]
    /\ StateInit
    /\ PureIdle
    /\ PdfIdle
    /\ folders \in InitFolders
    /\ uploads = <<>>
    /\ gmail_config \in [gdrive_folder_id : {0, 1}, search_term : {"grn", ""}]
    /\ MailIdle
    /\ RouterIdle

NextGmail ==
    \/ \E ok \in BOOLEAN : search_emails(ok)
    \/ \E ok \in BOOLEAN : base_folder_list(ok)
    \/ \E ok \in BOOLEAN : base_folder_create(ok)
    \/ SkipEmail
    \/ FinishGmail
    \/ \E ok \in BOOLEAN : get_message(ok)
    \/ \E ok \in BOOLEAN : get_attachment(ok)
    \/ \E ok \in BOOLEAN : search_folder_list(ok)
    \/ \E ok \in BOOLEAN : search_folder_create(ok)
    \/ \E ok \in BOOLEAN : type_folder_list(ok)
    \/ \E ok \in BOOLEAN : type_folder_create(ok)
    \/ \E ok \in BOOLEAN : file_exists_in_folder(ok)
    \/ \E ok \in BOOLEAN : upload_attachment(ok)
    \/ \E ok \in BOOLEAN : MarkEmail(ok)
    \/ LeaveEmail
    \/ KillGmail

SpecGmail == InitGmail /\ [][NextGmail]_vars

\* ------------------------------------- one instance running batch after batch
\* run_workflow_in_background with workflow_type "gmail" or "pdf": the runs of
\* one instance, one at a time
InitBatches ==
    /\ sheet \in {FreshSheet, LegacySheet}
    /\ config \in [variant : {"app", "mb"}, max_files : {Len(Listing)},
                   workflow_type : {"gmail", "pdf"}]
    /\ items \in {f \in [Docs -> 0..MaxItems] : f["d2"] = 1}
    /\ StateInit
    /\ PureIdle
    /\ PdfIdle
    /\ folders = <<ConfiguredFolder>>
    /\ uploads = <<>>
    /\ gmail_config = [gdrive_folder_id |-> 1, search_term |-> "grn"]
    /\ MailIdle
    /\ RouterIdle

NextBatches ==
    \/ Next
    \/ NextGmail
    \/ \E why \in PdfPreconditions : AbortPdfWorkflow(why)
    \/ AbortGmailWorkflow

SpecBatches == InitBatches /\ [][NextBatches]_vars

\* the same on a fresh tab with one row per document, where the
\* interpreter goes on executing a run that was started
InitFair ==
    /\ InitBatches
    /\ sheet = FreshSheet
    /\ items = [d \in Docs |-> 1]

FairBatches == InitFair /\ [][NextBatches]_vars /\ WF_vars(NextBatches)

\* ---------------------------------- the PDF workflow run again and again
\* process_pdf_workflow once more, after the runs that are counted: the same
\* listing, the same cap, no backend failure
process_pdf_workflow_again ==
    /\ config.workflow_type = "pdf"
    /\ pc = "idle"
    /\ gpc = "idle"
    /\ runs = MaxRuns
    /\ pdf_files' = Take(Listing, config.max_files)
    /\ pc' = IF pdf_files' = <<>> THEN "idle"
             ELSE IF config.variant = "app" THEN "existing" ELSE "loop"
    /\ i' = 1
    /\ existing_file_ids' = {}
    /\ processed_count' = 0
    /\ sheet_at_start' = sheet
    /\ UNCHANGED <<sheet, state_file, processed_pdfs, processed_emails, config, items,
                   rows, sheet_id_ok, all_headers, rows_to_delete, attempt, faults,
                   kills, runs, dirty, wfault, k_before, appended_ok, committed, del_req>>
    /\ UNCHANGED mailSide
    /\ listing_failed' = FALSE
    /\ precondition' = "ok"
    /\ result' = IF pdf_files' = <<>> THEN Done(TRUE, 0) ELSE NoResult
    /\ UNCHANGED <<writeHistory, temp_files>>

\* a tab without rows, or (for the loop that does not skip the ids found in
\* the sheet) the tab with rows of earlier runs
InitRepeat ==
    /\ Init
    /\ \/ sheet \in {FreshSheet, HeaderOnlySheet}
       \/ sheet = LegacySheet /\ config.variant = "mb"

\* every backend call succeeds
NextRepeat ==
    \/ process_pdf_workflow(TRUE)
    \/ process_pdf_workflow_again
    \/ ReadExisting(TRUE)
    \/ SkipFile
    \/ FinishRun
    \/ download_from_drive(TRUE)
    \/ extract(TRUE)
    \/ get_sheet_id(TRUE)
    \/ save_to_sheets(TRUE)
    \/ update_headers(TRUE)
    \/ replace_rows_locate(TRUE)
    \/ replace_rows_delete(TRUE)
    \/ append_to_google_sheet(TRUE)
    \/ CommitFile(TRUE)

\* the workflow is run again whenever it is idle, and a run that was started
\* goes on
FairRepeat == InitRepeat /\ [][NextRepeat]_vars /\ WF_vars(NextRepeat)

\* --------------------------------------- _process_extracted_data on its own
\* _process_extracted_data(extracted_data, file_info, progress_queue) for the
\* file d1 at time t1
ProcessExtracted ==
    /\ ~adapter_done
    /\ adapter_rows' = ExtractedRows(extracted_data, FileInfo("d1"), Stamp(1))
    /\ adapter_warned' = ("items" \notin extracted_data.present)
    /\ adapter_done' = TRUE
    /\ UNCHANGED <<extracted_data, sheet, state_file, processed_pdfs, processed_emails,
                   config, items, pc, pdfLocals, history, drive, mailVars, routerVars,
                   writeHistory, temp_files, report, sanitizeVars, queryVars, asideVars>>

InitAdapter ==
    /\ extracted_data \in Payloads
    /\ adapter_rows = <<>>
    /\ adapter_warned = FALSE
    /\ adapter_done = FALSE
    /\ SanitizeIdle
    /\ QueryIdle
    /\ AsideIdle
    /\ sheet = FreshSheet
    /\ config = [variant |-> "app", max_files |-> 1, workflow_type |-> "pdf"]
    /\ items = [d \in Docs |-> 1]
    /\ StateInit
    /\ PdfIdle
    /\ folders = <<ConfiguredFolder>>
    /\ uploads = <<>>
    /\ gmail_config = [gdrive_folder_id |-> 1, search_term |-> "grn"]
    /\ MailIdle
    /\ RouterIdle

NextAdapter == ProcessExtracted

SpecAdapter == InitAdapter /\ [][NextAdapter]_vars

\* ------------------------------------------- _sanitize_filename on its own
Sanitize ==
    /\ ~sanitize_done
    /\ cleaned' = sanitize_filename(raw_name)
    /\ sanitize_done' = TRUE
    /\ UNCHANGED <<raw_name, adapterVars, queryVars, asideVars, sheet, state_file, processed_pdfs,
                   processed_emails, config, items, pc, pdfLocals, history, drive,
                   mailVars, routerVars, writeHistory, temp_files, report>>

InitSanitize ==
    /\ raw_name \in Names
    /\ cleaned = <<>>
    /\ sanitize_done = FALSE
    /\ AdapterIdle
    /\ QueryIdle
    /\ AsideIdle
    /\ sheet = FreshSheet
    /\ config = [variant |-> "app", max_files |-> 1, workflow_type |-> "gmail"]
    /\ items = [d \in Docs |-> 1]
    /\ StateInit
    /\ PdfIdle
    /\ folders = <<ConfiguredFolder>>
    /\ uploads = <<>>
    /\ gmail_config = [gdrive_folder_id |-> 1, search_term |-> "grn"]
    /\ MailIdle
    /\ RouterIdle

NextSanitize == Sanitize

SpecSanitize == InitSanitize /\ [][NextSanitize]_vars

\* --------------------------------- the query of search_emails on its own
BuildQuery ==
    /\ ~query_done
    /\ keyword_parts' = KeywordQuery(keyword_expr)
    /\ query_done' = TRUE
    /\ UNCHANGED <<keyword_expr, adapterVars, sanitizeVars, asideVars, sheet, state_file,
                   processed_pdfs, processed_emails, config, items, pc, pdfLocals,
                   history, drive, mailVars, routerVars, writeHistory, temp_files,
                   report>>

InitQuery ==
    /\ keyword_expr \in SearchTerms
    /\ keyword_parts = <<>>
    /\ query_done = FALSE
    /\ AdapterIdle
    /\ SanitizeIdle
    /\ AsideIdle
    /\ sheet = FreshSheet
    /\ config = [variant |-> "app", max_files |-> 1, workflow_type |-> "gmail"]
    /\ items = [d \in Docs |-> 1]
    /\ StateInit
    /\ PdfIdle
    /\ folders = <<ConfiguredFolder>>
    /\ uploads = <<>>
    /\ gmail_config = [gdrive_folder_id |-> 1, search_term |-> "grn"]
    /\ MailIdle
    /\ RouterIdle

NextQuery == BuildQuery

SpecQuery == InitQuery /\ [][NextQuery]_vars

\* -------------------- the worker thread, the progress queue, the page's loop
\* both workflows and the folder runs at rest, with nothing processed
WorkflowsIdle ==
    /\ sheet = FreshSheet
    /\ config = [variant |-> "app", max_files |-> 1, workflow_type |-> "pdf"]
    /\ items = [d \in Docs |-> 1]
    /\ StateInit
    /\ PdfIdle
    /\ folders = <<ConfiguredFolder>>
    /\ uploads = <<>>
    /\ gmail_config = [gdrive_folder_id |-> 1, search_term |-> "grn"]
    /\ MailIdle
    /\ RouterIdle

\* what the thread and the page's loop leave alone
progressFrame == <<workflowVars, adapterVars, sanitizeVars, queryVars, listingVars,
                   windowVars, overlapVars>>

\* a message: {'type': ...}, with {'result': {'success', 'processed'}} for 'done'
Note(type) == [type |-> type, success |-> FALSE, processed |-> -1]
DoneMsg(success, processed) == [type |-> "done", success |-> success, processed |-> processed]

\* the message as it lies in the queue: n is its place among the messages put,
\* by the workflow method that put it ("none": run_workflow_in_background)
Stamped(m) ==
    [type |-> m.type, success |-> m.success, processed |-> m.processed,
     n |-> Len(put_log) + 1, by |-> invocation]

\* progress_queue.put: queue.Queue() has no maxsize, so put never waits
Put ==
    /\ pending # <<>>
    /\ progress_queue' = Append(progress_queue, Stamped(Head(pending)))
    /\ put_log' = Append(put_log, Stamped(Head(pending)))
    /\ pending' = Tail(pending)
    /\ dones' = IF invocation # "none" /\ Head(pending).type = "done" THEN dones + 1 ELSE dones
    /\ late' = (late \/ (invocation # "none" /\ dones > 0))
    /\ UNCHANGED <<workflow_type, runner, invocation, wpc, todo, count, upc, seen>>
    /\ UNCHANGED progressFrame

\* the call of process_gmail_workflow or process_pdf_workflow
Enter(w) ==
    /\ invocation' = w
    /\ wpc' = "memory"
    /\ todo' = 0
    /\ count' = 0
    /\ dones' = 0
    /\ late' = FALSE

\* run_workflow_in_background: the dispatch on workflow_type, and the two
\* messages that open the combined run
RunnerStart ==
    /\ runner = "start"
    /\ IF workflow_type = "combined"
       THEN /\ pending' = << Note("info"), Note("status") >>
            /\ runner' = "step1"
            /\ UNCHANGED <<invocation, wpc, todo, count, dones, late>>
       ELSE /\ Enter(workflow_type)
            /\ runner' = "last_call"
            /\ UNCHANGED pending
    /\ UNCHANGED <<workflow_type, progress_queue, upc, seen, put_log>>
    /\ UNCHANGED progressFrame

\* combined: automation.process_gmail_workflow(gmail_config, progress_queue)
RunnerStep1 ==
    /\ runner = "step1"
    /\ pending = <<>>
    /\ Enter("gmail")
    /\ runner' = "first_call"
    /\ UNCHANGED <<workflow_type, pending, progress_queue, upc, seen, put_log>>
    /\ UNCHANGED progressFrame

\* combined: time.sleep(2) and the 'Step 2' status
RunnerStep2 ==
    /\ runner = "step2"
    /\ pending' = << Note("status") >>
    /\ runner' = "call2"
    /\ UNCHANGED <<workflow_type, invocation, wpc, todo, count, progress_queue, upc, seen,
                   put_log, dones, late>>
    /\ UNCHANGED progressFrame

\* combined: automation.process_pdf_workflow(pdf_config, progress_queue)
RunnerCall2 ==
    /\ runner = "call2"
    /\ pending = <<>>
    /\ Enter("pdf")
    /\ runner' = "last_call"
    /\ UNCHANGED <<workflow_type, pending, progress_queue, upc, seen, put_log>>
    /\ UNCHANGED progressFrame

\* combined: the closing 'success' message, put whatever the two steps reported
RunnerEpilogue ==
    /\ runner = "epilogue"
    /\ pending' = << Note("success") >>
    /\ runner' = "ending"
    /\ UNCHANGED <<workflow_type, invocation, wpc, todo, count, progress_queue, upc, seen,
                   put_log, dones, late>>
    /\ UNCHANGED progressFrame

\* the thread's target returns and the thread ends
ThreadEnd ==
    /\ runner = "ending"
    /\ pending = <<>>
    /\ runner' = "ended"
    /\ UNCHANGED <<workflow_type, invocation, wpc, pending, todo, count, progress_queue,
                   upc, seen, put_log, dones, late>>
    /\ UNCHANGED progressFrame

\* the workflow method goes from one branch to the next and puts msgs on the way
Segment(msgs, next) ==
    /\ invocation # "none"
    /\ pending = <<>>
    /\ pending' = msgs
    /\ wpc' = next
    /\ UNCHANGED <<workflow_type, runner, invocation, progress_queue, upc, seen, put_log,
                   dones, late>>
    /\ UNCHANGED progressFrame

\* _check_memory: its 'error' message when the memory is short
CheckMemory(ok) ==
    /\ wpc = "memory"
    /\ IF ok THEN Segment(<<>>, IF invocation = "pdf" THEN "library" ELSE "announce")
             ELSE Segment(<< Note("error") >>, "abort")
    /\ UNCHANGED <<todo, count>>

\* process_pdf_workflow: LLAMA_AVAILABLE
CheckLibrary(ok) ==
    /\ wpc = "library"
    /\ IF ok THEN Segment(<<>>, "announce")
             ELSE Segment(<< Note("error") >>, "abort")
    /\ UNCHANGED <<todo, count>>

\* the 'Starting ...' status and the first progress value
Announce ==
    /\ wpc = "announce"
    /\ Segment(<< Note("status"), Note("progress") >>,
               IF invocation = "pdf" THEN "agent" ELSE "listing")
    /\ UNCHANGED <<todo, count>>

\* process_pdf_workflow: extractor.get_agent returns the agent or None
GetAgent(found) ==
    /\ wpc = "agent"
    /\ IF found THEN Segment(<< Note("progress") >>, "listing")
                ELSE Segment(<< Note("error") >>, "abort")
    /\ UNCHANGED <<todo, count>>

\* the candidate listing with n candidates, and the exit when there is none
ListCandidates(n) ==
    /\ wpc = "listing"
    /\ todo' = n
    /\ UNCHANGED count
    /\ IF invocation = "gmail"
       THEN IF n = 0
            THEN Segment(<< Note("info"), Note("progress"), Note("warning") >>, "empty")
            ELSE Segment(<< Note("info"), Note("progress"), Note("status"), Note("info") >>,
                         "base")
       ELSE IF n = 0
            THEN Segment(<< Note("warning") >>, "empty")
            ELSE Segment(<< Note("status") >>, "loop")

\* process_gmail_workflow: the base folder, and the exit when it does not resolve
BaseFolder(ok) ==
    /\ wpc = "base"
    /\ IF ok THEN Segment(<< Note("progress") >>, "loop")
             ELSE Segment(<< Note("error") >>, "abort")
    /\ UNCHANGED <<todo, count>>

\* one pass of the loop: the candidate is skipped, fails inside the inner
\* try, or is processed
ItemOutcomes == {"skipped", "failed", "processed"}

VisitItem(outcome) ==
    /\ wpc = "loop"
    /\ todo > 0
    /\ todo' = todo - 1
    /\ count' = IF outcome = "processed" THEN count + 1 ELSE count
    /\ Segment(CASE outcome = "skipped" -> << Note("info") >>
                 [] outcome = "failed" -> << Note("status"), Note("error") >>
                 [] OTHER -> << Note("status"), Note("progress") >>,
               "loop")

\* after the loop: progress 100 and the 'completed' status
EndLoop ==
    /\ wpc = "loop"
    /\ todo = 0
    /\ Segment(<< Note("progress"), Note("status") >>, "final")
    /\ UNCHANGED <<todo, count>>

\* the positions inside the outer try from which an exception reaches its handler
InTryAndAfter ==
    {"memory", "library", "announce", "agent", "listing", "base", "loop", "abort",
     "empty", "final", "return"}

InTry ==
    {"memory", "library", "announce", "agent", "listing", "base", "loop", "abort",
     "empty", "final"}

\* an exception inside the outer try: what was not put yet is not put, and the
\* handler puts its 'error'
Raise ==
    /\ invocation # "none"
    /\ wpc \in InTry
    /\ pending' = << Note("error") >>
    /\ wpc' = "handler"
    /\ UNCHANGED <<workflow_type, runner, invocation, todo, count, progress_queue, upc,
                   seen, put_log, dones, late>>
    /\ UNCHANGED progressFrame

\* the 'done' message of the exit at hand, followed by `return` or by the end
\* of the method
ExitResult ==
    CASE wpc = "empty" -> DoneMsg(TRUE, 0)
      [] wpc = "final" -> DoneMsg(TRUE, count)
      [] OTHER -> DoneMsg(FALSE, 0)

PutDone ==
    /\ wpc \in {"abort", "empty", "final", "handler"}
    /\ Segment(<< ExitResult >>, "return")
    /\ UNCHANGED <<todo, count>>

\* the method returns to run_workflow_in_background
ReturnFromWorkflow ==
    /\ invocation # "none"
    /\ wpc = "return"
    /\ pending = <<>>
    /\ invocation' = "none"
    /\ wpc' = "none"
    /\ runner' = IF runner = "first_call" THEN "step2"
                 ELSE IF workflow_type = "combined" THEN "epilogue" ELSE "ending"
    /\ UNCHANGED <<workflow_type, pending, todo, count, progress_queue, upc, seen,
                   put_log, dones, late>>
    /\ UNCHANGED progressFrame

\* faulty variant: the loop of the page ends as soon as the thread has ended
LoopTestAliveOnly ==
    /\ upc = "alive"
    /\ upc' = IF runner # "ended" THEN "inner" ELSE "join"
    /\ UNCHANGED <<workflow_type, runner, invocation, wpc, pending, todo, count,
                   progress_queue, seen, put_log, dones, late>>
    /\ UNCHANGED progressFrame

\* main: `while thread.is_alive() or not queue.empty()`, the left operand
LoopTestAlive ==
    /\ upc = "alive"
    /\ upc' = IF runner # "ended" THEN "inner" ELSE "empty"
    /\ UNCHANGED <<workflow_type, runner, invocation, wpc, pending, todo, count,
                   progress_queue, seen, put_log, dones, late>>
    /\ UNCHANGED progressFrame

\* the right operand, evaluated when the thread is not alive
LoopTestEmpty ==
    /\ upc = "empty"
    /\ upc' = IF progress_queue # <<>> THEN "inner" ELSE "join"
    /\ UNCHANGED <<workflow_type, runner, invocation, wpc, pending, todo, count,
                   progress_queue, seen, put_log, dones, late>>
    /\ UNCHANGED progressFrame

\* `while not queue.empty(): msg = queue.get()`, then time.sleep(0.1); the
\* page's loop is the only one that takes from the queue
Consume ==
    /\ upc = "inner"
    /\ IF progress_queue # <<>>
       THEN /\ seen' = Append(seen, Head(progress_queue))
            /\ progress_queue' = Tail(progress_queue)
            /\ upc' = "inner"
       ELSE /\ upc' = "alive"
            /\ UNCHANGED <<seen, progress_queue>>
    /\ UNCHANGED <<workflow_type, runner, invocation, wpc, pending, todo, count, put_log,
                   dones, late>>
    /\ UNCHANGED progressFrame

\* thread.join() after the loop
ThreadJoin ==
    /\ upc = "join"
    /\ runner = "ended"
    /\ upc' = "finished"
    /\ UNCHANGED <<workflow_type, runner, invocation, wpc, pending, todo, count,
                   progress_queue, seen, put_log, dones, late>>
    /\ UNCHANGED progressFrame

\* the button was pressed: the queue is new, the thread is started, the loop begins
InitProgress ==
    /\ workflow_type \in {"gmail", "pdf", "combined"}
    /\ runner = "start"
    /\ invocation = "none"
    /\ wpc = "none"
    /\ pending = <<>>
    /\ todo = 0
    /\ count = 0
    /\ progress_queue = <<>>
    /\ upc = "alive"
    /\ seen = <<>>
    /\ put_log = <<>>
    /\ dones = 0
    /\ late = FALSE
    /\ ListingIdle
    /\ WindowIdle
    /\ OverlapIdle
    /\ AdapterIdle
    /\ SanitizeIdle
    /\ QueryIdle
    /\ WorkflowsIdle

NextProgress ==
    \/ Put
    \/ RunnerStart
    \/ RunnerStep1
    \/ RunnerStep2
    \/ RunnerCall2
    \/ RunnerEpilogue
    \/ ThreadEnd
    \/ \E ok \in BOOLEAN : CheckMemory(ok)
    \/ \E ok \in BOOLEAN : CheckLibrary(ok)
    \/ Announce
    \/ \E found \in BOOLEAN : GetAgent(found)
    \/ \E n \in 0..MaxCandidates : ListCandidates(n)
    \/ \E ok \in BOOLEAN : BaseFolder(ok)
    \/ \E outcome \in ItemOutcomes : VisitItem(outcome)
    \/ EndLoop
    \/ Raise
    \/ PutDone
    \/ ReturnFromWorkflow
    \/ LoopTestAlive
    \/ LoopTestEmpty
    \/ Consume
    \/ ThreadJoin

SpecProgress == InitProgress /\ [][NextProgress]_vars

\* ----------------------------------------- a candidate listing on its own
listingFrame == <<workflowVars, adapterVars, sanitizeVars, queryVars, progressVars,
                  windowVars, overlapVars>>

\* files().list / messages().list: the page that starts after `token` items.
\* It holds at most page_size items and at most what the backend puts into one
\* page; nextPageToken is absent (-1) when nothing remains
ListPage(token, page_size) ==
    LET n == IF page_size < backend_page THEN page_size ELSE backend_page
        last == IF token + n < Len(matching) THEN token + n ELSE Len(matching)
    IN  [items |-> SubSeq(matching, token + 1, last),
         nextPageToken |-> IF last < Len(matching) THEN last ELSE -1]

\* pageSize=1000 of _list_drive_files
DrivePageSize == 1000

\* _list_drive_files: one pass of `while True`: the call with pageToken, the
\* extend, and the break when the page carries no nextPageToken
ListDrivePage ==
    /\ listing_kind = "drive"
    /\ ~listed
    /\ LET results == ListPage(IF page_token = -1 THEN 0 ELSE page_token, DrivePageSize)
       IN  /\ all_files' = all_files \o results.items
           /\ page_token' = results.nextPageToken
           /\ listed' = (results.nextPageToken = -1)
    /\ UNCHANGED <<listing_kind, matching, backend_page, max_results>>
    /\ UNCHANGED listingFrame

\* search_emails: one messages().list call with maxResults=max_results, whose
\* 'messages' are returned; nextPageToken is not read
ListMessages ==
    /\ listing_kind = "gmail"
    /\ ~listed
    /\ all_files' = ListPage(0, max_results).items
    /\ listed' = TRUE
    /\ UNCHANGED <<listing_kind, matching, backend_page, max_results, page_token>>
    /\ UNCHANGED listingFrame

InitListing ==
    /\ listing_kind \in {"drive", "gmail"}
    /\ matching \in {[j \in 1..n |-> j] : n \in 0..MaxMatches}
    /\ backend_page \in 1..MaxPage
    /\ max_results \in 1..MaxMatches
    /\ page_token = -1
    /\ all_files = <<>>
    /\ listed = FALSE
    /\ ProgressIdle
    /\ WindowIdle
    /\ OverlapIdle
    /\ AdapterIdle
    /\ SanitizeIdle
    /\ QueryIdle
    /\ WorkflowsIdle

NextListing ==
    \/ ListDrivePage
    \/ ListMessages

SpecListing == InitListing /\ [][NextListing]_vars

\* ------------------------------- the date window of the queries on its own
windowFrame == <<workflowVars, adapterVars, sanitizeVars, queryVars, progressVars,
                 listingVars, overlapVars>>

\* timedelta(days=n), in ticks
Days(n) == n * TicksPerDay

\* strftime with a date-only pattern ('%Y-%m-%dT00:00:00Z', '%Y/%m/%d'), read
\* back as an instant: the start of the day that the instant t falls in
StartOfDay(t) == (t \div TicksPerDay) * TicksPerDay

\* _list_drive_files: start_datetime = utcnow() - timedelta(days=days_back - 1),
\* formatted as '%Y-%m-%dT00:00:00Z'
drive_start(t, n) == StartOfDay(t - Days(n - 1))

\* search_emails: start_date = now() - timedelta(days=days_back), formatted as
\* '%Y/%m/%d' after `after:`
mail_start(t, n) == StartOfDay(t - Days(n))

\* the two queries are built at the instant time_now
BuildWindow ==
    /\ ~window_done
    /\ drive_lower' = drive_start(time_now, days_back)
    /\ mail_lower' = mail_start(time_now, days_back)
    /\ window_done' = TRUE
    /\ UNCHANGED <<time_now, days_back, created>>
    /\ UNCHANGED windowFrame

\* every time of one day, every days_back, and an item of any earlier instant
InitWindow ==
    /\ time_now \in Days(MaxDaysBack + 1)..(Days(MaxDaysBack + 2) - 1)
    /\ days_back \in 1..MaxDaysBack
    /\ created \in 0..time_now
    /\ drive_lower = 0
    /\ mail_lower = 0
    /\ window_done = FALSE
    /\ ProgressIdle
    /\ ListingIdle
    /\ OverlapIdle
    /\ AdapterIdle
    /\ SanitizeIdle
    /\ QueryIdle
    /\ WorkflowsIdle

NextWindow == BuildWindow

SpecWindow == InitWindow /\ [][NextWindow]_vars

\* ------------------------------------ two instances whose PDF runs overlap
overlapFrame == <<workflowVars, adapterVars, sanitizeVars, queryVars, progressVars,
                  listingVars, windowVars>>

\* a header row that holds every key of the rows, so that no write changes it
FullHeader == <<"qty", "po_number", "drive_file_id", "processed_date">>

\* the tab before the two runs: the header row alone, or with rows of earlier
\* runs below it
OverlapSheets ==
    { <<FullHeader>>,
      <<FullHeader, <<"1", "", "d1", "t0">>, <<"", "PO", "d2", "t0">> >> }

\* the document instance p is at
inst_file(p) == Listing[inst_i[p]]

\* the rows instance p extracts from document d: one line item, stamped with
\* the instance
inst_rows(p, d) == process_extracted_data(d, 1, Stamp(p))

\* __init__: _load_processed_state
Construct(p) ==
    /\ inst_pc[p] = "unborn"
    /\ inst_pdfs' = [inst_pdfs EXCEPT ![p] = shared_state.pdfs]
    /\ inst_pc' = [inst_pc EXCEPT ![p] = "idle"]
    /\ UNCHANGED <<shared_sheet, shared_state, inst_variant, inst_i, inst_existing,
                   inst_rows_to_delete>>
    /\ UNCHANGED overlapFrame

\* process_pdf_workflow: the listing and, in app.py, the ids read from the sheet
OverlapStart(p) ==
    /\ inst_pc[p] = "idle"
    /\ inst_existing' = [inst_existing EXCEPT
                            ![p] = IF inst_variant = "app" THEN ExistingIds(shared_sheet)
                                   ELSE {}]
    /\ inst_i' = [inst_i EXCEPT ![p] = 1]
    /\ inst_pc' = [inst_pc EXCEPT ![p] = "loop"]
    /\ UNCHANGED <<shared_sheet, shared_state, inst_variant, inst_pdfs, inst_rows_to_delete>>
    /\ UNCHANGED overlapFrame

\* the loop's skips
OverlapSkip(p) ==
    /\ inst_pc[p] = "loop"
    /\ inst_i[p] <= Len(Listing)
    /\ inst_file(p) \in inst_pdfs[p] \cup inst_existing[p]
    /\ inst_i' = [inst_i EXCEPT ![p] = @ + 1]
    /\ UNCHANGED <<shared_sheet, shared_state, inst_variant, inst_pc, inst_pdfs,
                   inst_existing, inst_rows_to_delete>>
    /\ UNCHANGED overlapFrame

\* download, extraction, header read (no header is missing), and the read of
\* _replace_rows_for_file with its scan for the rows of the document
OverlapLocate(p) ==
    /\ inst_pc[p] = "loop"
    /\ inst_i[p] <= Len(Listing)
    /\ inst_file(p) \notin inst_pdfs[p] \cup inst_existing[p]
    /\ inst_rows_to_delete' =
           [inst_rows_to_delete EXCEPT ![p] = LocateRows(shared_sheet, inst_file(p))]
    /\ inst_pc' = [inst_pc EXCEPT
                      ![p] = IF inst_rows_to_delete'[p] # <<>> THEN "delete" ELSE "append"]
    /\ UNCHANGED <<shared_sheet, shared_state, inst_variant, inst_pdfs, inst_i,
                   inst_existing>>
    /\ UNCHANGED overlapFrame

\* the batched delete of the row numbers that were located
OverlapDelete(p) ==
    /\ inst_pc[p] = "delete"
    /\ shared_sheet' = ApplyDeletes(shared_sheet, DeleteRequests(inst_rows_to_delete[p]))
    /\ inst_pc' = [inst_pc EXCEPT ![p] = "append"]
    /\ UNCHANGED <<shared_state, inst_variant, inst_pdfs, inst_i, inst_existing,
                   inst_rows_to_delete>>
    /\ UNCHANGED overlapFrame

\* _append_to_google_sheet
OverlapAppend(p) ==
    /\ inst_pc[p] = "append"
    /\ shared_sheet' = AppendedSheet(shared_sheet,
                                     Values(inst_rows(p, inst_file(p)), FullHeader))
    /\ inst_pc' = [inst_pc EXCEPT ![p] = "commit"]
    /\ UNCHANGED <<shared_state, inst_variant, inst_pdfs, inst_i, inst_existing,
                   inst_rows_to_delete>>
    /\ UNCHANGED overlapFrame

\* processed_pdfs.add and _save_processed_state: the file is rewritten from
\* the sets of this instance
OverlapCommit(p) ==
    /\ inst_pc[p] = "commit"
    /\ inst_pdfs' = [inst_pdfs EXCEPT ![p] = @ \cup {inst_file(p)}]
    /\ shared_state' = [emails |-> {}, pdfs |-> inst_pdfs'[p]]
    /\ inst_i' = [inst_i EXCEPT ![p] = @ + 1]
    /\ inst_pc' = [inst_pc EXCEPT ![p] = "loop"]
    /\ inst_rows_to_delete' = [inst_rows_to_delete EXCEPT ![p] = <<>>]
    /\ UNCHANGED <<shared_sheet, inst_variant, inst_existing>>
    /\ UNCHANGED overlapFrame

\* the end of the loop
OverlapFinish(p) ==
    /\ inst_pc[p] = "loop"
    /\ inst_i[p] > Len(Listing)
    /\ inst_pc' = [inst_pc EXCEPT ![p] = "ended"]
    /\ UNCHANGED <<shared_sheet, shared_state, inst_variant, inst_pdfs, inst_i,
                   inst_existing, inst_rows_to_delete>>
    /\ UNCHANGED overlapFrame

InitOverlap ==
    /\ shared_sheet \in OverlapSheets
    /\ shared_state \in {[emails |-> {}, pdfs |-> {}]}
    /\ inst_variant \in {"app", "mb"}
    /\ inst_pc = [p \in Procs |-> "unborn"]
    /\ inst_pdfs = [p \in Procs |-> {}]
    /\ inst_i = [p \in Procs |-> 1]
    /\ inst_existing = [p \in Procs |-> {}]
    /\ inst_rows_to_delete = [p \in Procs |-> <<>>]
    /\ ProgressIdle
    /\ ListingIdle
    /\ WindowIdle
    /\ AdapterIdle
    /\ SanitizeIdle
    /\ QueryIdle
    /\ WorkflowsIdle

NextOverlap ==
    \E p \in Procs :
        \/ Construct(p)
        \/ OverlapStart(p)
        \/ OverlapSkip(p)
        \/ OverlapLocate(p)
        \/ OverlapDelete(p)
        \/ OverlapAppend(p)
        \/ OverlapCommit(p)
        \/ OverlapFinish(p)

SpecOverlap == InitOverlap /\ [][NextOverlap]_vars

\* ------------------------------------- runs that resolve one folder each
\* the call of run p returns id ("" is 0)
Return(p, id, failed) ==
    /\ calls' = Append(calls, [name |-> rreq[p].name, parent |-> rreq[p].parent,
                               id |-> id, before |-> rbefore[p],
                               creates |-> rcreates'[p], failed |-> failed])
    /\ rpc' = [rpc EXCEPT ![p] = "idle"]

InFlight == Cardinality({p \in Procs : rpc[p] # "idle"})

\* run p calls _create_drive_folder(name, parent)
ResolveStart(p, name, parent) ==
    /\ rpc[p] = "idle"
    /\ Len(calls) + InFlight < MaxResolves
    /\ rpc' = [rpc EXCEPT ![p] = "list"]
    /\ rreq' = [rreq EXCEPT ![p] = Folder(name, parent)]
    /\ rbefore' = [rbefore EXCEPT ![p] = Len(FolderQuery(folders, name, parent))]
    /\ rcreates' = [rcreates EXCEPT ![p] = 0]
    /\ UNCHANGED <<calls, drive, state_file, processed_emails, faults, runs, dirty,
                   gmail_config, gpc, mailLocals, mailHistory, pdfSide>>
    /\ UNCHANGED report

\* the same, one call after the other: no other call is under way
ResolveInSequence(p, name, parent) ==
    /\ \A q \in Procs : rpc[q] = "idle"
    /\ ResolveStart(p, name, parent)

\* _create_drive_folder of run p, listing call
ResolveList(p, ok) ==
    /\ rpc[p] = "list"
    /\ Call(ok)
    /\ UNCHANGED rcreates
    /\ LET out == ListOutcome(ok, rreq[p].name, rreq[p].parent)
       IN  CASE out = "found" -> Return(p, FirstFound(rreq[p].name, rreq[p].parent), FALSE)
             [] out = "failed" -> Return(p, 0, TRUE)
             [] OTHER -> rpc' = [rpc EXCEPT ![p] = "create"] /\ UNCHANGED calls
    /\ UNCHANGED <<rreq, rbefore, drive, state_file, processed_emails, runs, dirty,
                   gmail_config, gpc, mailLocals, mailHistory, pdfSide>>
    /\ UNCHANGED report

\* _create_drive_folder of run p, create call
ResolveCreate(p, ok) ==
    /\ rpc[p] = "create"
    /\ Call(ok)
    /\ rcreates' = [rcreates EXCEPT ![p] = 1]
    /\ IF ok
       THEN /\ folders' = create_drive_folder(folders, rreq[p].name, rreq[p].parent)
            /\ Return(p, Len(folders'), FALSE)
       ELSE /\ Return(p, 0, TRUE)
            /\ UNCHANGED folders
    /\ UNCHANGED <<rreq, rbefore, uploads, state_file, processed_emails, runs, dirty,
                   gmail_config, gpc, mailLocals, mailHistory, pdfSide>>
    /\ UNCHANGED report

InitRouter ==
    /\ sheet = FreshSheet
    /\ config = [variant |-> "app", max_files |-> 1, workflow_type |-> "gmail"]
    /\ items = [d \in Docs |-> 1]
    /\ StateInit
    /\ PureIdle
    /\ PdfIdle
    /\ folders \in InitFolders
    /\ uploads = <<>>
    /\ gmail_config = [gdrive_folder_id |-> 1, search_term |-> "grn"]
    /\ MailIdle
    /\ RouterIdle

\* the parents a call may name: none, or a folder of the store
Parents == 0..Len(folders)

NextRouterSequential ==
    \/ \E p \in Procs, name \in FolderNames, parent \in Parents :
          ResolveInSequence(p, name, parent)
    \/ \E p \in Procs, ok \in BOOLEAN : ResolveList(p, ok)
    \/ \E p \in Procs, ok \in BOOLEAN : ResolveCreate(p, ok)

SpecRouterSequential == InitRouter /\ [][NextRouterSequential]_vars

NextRouterConcurrent ==
    \/ \E p \in Procs, name \in FolderNames, parent \in Parents :
          ResolveStart(p, name, parent)
    \/ \E p \in Procs, ok \in BOOLEAN : ResolveList(p, ok)
    \/ \E p \in Procs, ok \in BOOLEAN : ResolveCreate(p, ok)

SpecRouterConcurrent == InitRouter /\ [][NextRouterConcurrent]_vars

\* ------------------------------------------------------ what the claims say
\* the data rows of s whose cell under the first drive_file_id header is d
TaggedRowNumbers(s, d) ==
    {r \in 2..Len(s) :
        \E c \in 1..Len(s[1]) :
            /\ s[1][c] = "drive_file_id"
            /\ \A b \in 1..(c - 1) : s[1][b] # "drive_file_id"
            /\ Len(s[r]) >= c
            /\ s[r][c] = d}

TaggedCount(s, d) == Cardinality(TaggedRowNumbers(s, d))

\* s without the rows whose numbers are in gone
WithoutRows(s, gone) ==
    LET keep == SelectSeq([r \in 1..Len(s) |-> r], LAMBDA r : r \notin gone)
    IN  [n \in 1..Len(keep) |-> s[keep[n]]]

\* the rows of d in s are the rows of one extraction of d, as they lie under
\* the header of s: n rows with one processed_date; an extraction of this
\* history (not the "t0" of the rows the tab started with) has items[d] rows
OneExtraction(s, d) ==
    LET tagged == TaggedRowNumbers(s, d)
        loc == SelectSeq([r \in 1..Len(s) |-> r], LAMBDA r : r \in tagged)
        n == Len(loc)
    IN  /\ n >= 1
        /\ \E t \in 0..MaxRuns :
              /\ t > 0 => n = items[d]
              /\ LET want == Values(process_extracted_data(d, n, Stamp(t)), s[1])
                 IN  \A a \in 1..n : s[loc[a]] = TrimRow(want[a])

\* C1: every id in processed_pdfs is the id of a document whose rows were
\* appended to the sheet successfully at least once (a document whose sheet
\* write failed is not marked processed)
C1_ProcessedWereAppended == processed_pdfs \subseteq appended_ok

\* C3: a second run over the unchanged listing, with unchanged extraction
\* results and no failed call, leaves the sheet as the first run left it, and
\* every document written holds as many rows as its extraction yields
C3_SecondRunChangesNothing ==
    (pc = "idle" /\ runs >= 2 /\ kills = 0 /\ ~dirty) =>
        /\ sheet = sheet_at_start
        /\ \A d \in processed_pdfs : TaggedCount(sheet, d) = items[d]

C3_Witness ==
    /\ pc = "idle" /\ runs = 2 /\ kills = 0 /\ ~dirty
    /\ processed_pdfs = Docs
    /\ sheet = sheet_at_start
    /\ TaggedCount(sheet, "d1") = 2

\* C4: when a sheet write for a document that had k rows completes with no
\* failed call, exactly m rows carry its id, m being the rows of the new
\* extraction
C4_ReplaceLeavesNewRows ==
    (pc = "commit" /\ ~wfault) => TaggedCount(sheet, file_id) = Len(rows)

C4_Witness ==
    /\ pc = "commit" /\ ~wfault
    /\ k_before = 3
    /\ Len(rows) = 1
    /\ TaggedCount(sheet, file_id) = 1

\* C5: the header row before any step is a prefix of the header row after it
C5_HeaderOnlyGrows == [][IsPrefix(Header(sheet), Header(sheet'))]_vars

\* C6: after a kill and a rerun that completes, no call having failed, every
\* candidate that yields rows has exactly the rows of one extraction in the
\* sheet, and every id the state file ever held is still in it
C6_KillThenRerun ==
    /\ (pc = "idle" /\ kills >= 1 /\ ~dirty /\ pdf_files # <<>>) =>
          \A d \in Range(pdf_files) : items[d] >= 1 => OneExtraction(sheet, d)
    /\ committed \subseteq state_file.pdfs

C6_Witness ==
    /\ pc = "idle" /\ kills >= 1 /\ ~dirty /\ pdf_files = Listing
    /\ config.variant = "mb"
    /\ committed = Docs
    /\ items["d1"] = 2
    /\ OneExtraction(sheet, "d1")

\* C7: the batched delete holds one single-row range per located row, in
\* strictly descending order of start index, and applying the ranges one
\* after the other removes exactly the located rows
C7_DeleteDescending ==
    [][(pc = "delete" /\ pc' = "append" /\ sheet_id_ok) =>
          /\ StrictlyDescending(del_req')
          /\ {del_req'[j] + 1 : j \in 1..Len(del_req')} = TaggedRowNumbers(sheet, file_id)
          /\ sheet' = WithoutRows(sheet, TaggedRowNumbers(sheet, file_id))]_vars

C7_Witness == del_req = <<6, 4, 1>> /\ pc = "append"

\* the parts of message m, as <<message, part>>
PartsOf(m) == {<<m, j>> : j \in 1..Len(Attachments(m))}

\* C2: a message is in processed_emails only when every one of its attachment
\* parts has been delivered (uploaded, or found present in its folder); a
\* message of which one part failed while another was uploaded is not marked
C2_MarkedOnlyWhenAllDelivered ==
    \A m \in processed_emails : PartsOf(m) \subseteq delivered

\* no two folders of the store have the same name under the same parent
OnePerPair(fs) == \A a, b \in 1..Len(fs) : fs[a] = fs[b] => a = b

\* C8: two calls for the same (name, parent), one after the other and neither
\* failing, return the same folder id, and between them issue one create
\* request when no folder matched before the first and none when one did (the
\* second call never creates); after any sequence of such calls the store
\* holds at most one folder per (name, parent)
C8_ResolveTwiceInSequence ==
    /\ \A j \in 1..(Len(calls) - 1) :
          LET c1 == calls[j]
              c2 == calls[j + 1]
          IN  (c1.name = c2.name /\ c1.parent = c2.parent /\ ~c1.failed /\ ~c2.failed) =>
                  /\ c1.id = c2.id
                  /\ c1.id \in 1..Len(folders)
                  /\ c2.creates = 0
                  /\ c1.creates + c2.creates = (IF c1.before = 0 THEN 1 ELSE 0)
    /\ OnePerPair(folders)

C8_Witness ==
    /\ Len(calls) >= 2
    /\ calls[1].name = "Gmail_Attachments" /\ calls[1].parent = 1
    /\ calls[2].name = "Gmail_Attachments" /\ calls[2].parent = 1
    /\ ~calls[1].failed /\ ~calls[2].failed
    /\ calls[1].before = 0
    /\ calls[1].creates = 1 /\ calls[2].creates = 0
    /\ calls[1].id = calls[2].id
    /\ folders[calls[1].id] = Folder("Gmail_Attachments", 1)

\* C9: with two runs resolving folders side by side, their listing and create
\* calls interleaved in any order, the store never holds two folders of the
\* same name under the same parent
C9_NoDuplicateSiblings == OnePerPair(folders)

\* C10: once the listing or the creation of a folder of an attachment's path
\* has failed, no further folder is created for the attachment and it is
\* uploaded nowhere; no message is marked processed owing only to such
\* attachments; and the run goes on through the rest of the messages
C10_FolderFailureAbandonsAttachment ==
    /\ path_fault => (Len(folders) = folders_at_fault /\ Len(uploads) = uploads_at_fault)
    /\ \A r \in marks : r.counted \ r.faulted # {}
    /\ (gpc = "idle" /\ run_faulted) => e > Len(emails)

\* a step of a run that is not the kill of the process
RunStep == (pc # "idle" \/ gpc # "idle") /\ kills' = kills

\* the Gmail run is in its loop over the messages
InEmailLoop == gpc \notin {"idle", "base_list", "base_create"}

\* C11: whatever fails while one email or one document is dispatched, the
\* candidates are visited one after the other in listing order, the run ends
\* only after the last of them, and a run that was started comes to its end
C11_FailureDoesNotStopBatch ==
    /\ [][(RunStep /\ pc # "idle") =>
             /\ i' \in {i, i + 1}
             /\ (pc' = "idle" => (i > Len(pdf_files) /\ result' = Done(TRUE, processed_count)))]_vars
    /\ [][(RunStep /\ InEmailLoop) =>
             /\ e' \in {e, e + 1}
             /\ (gpc' = "idle" => (e > Len(emails) /\ result' = Done(TRUE, total_attachments)))]_vars
    /\ ((pc # "idle" \/ gpc # "idle") ~> (pc = "idle" /\ gpc = "idle"))

C11_Witness ==
    /\ pc = "idle" /\ runs = 1 /\ kills = 0 /\ faults >= 1
    /\ config.variant = "mb"
    /\ items["d1"] >= 1
    /\ "d1" \notin processed_pdfs
    /\ "d2" \in processed_pdfs
    /\ result = Done(TRUE, 1)

\* C12: a run whose preconditions held and whose candidate listing did not
\* fail reports success True, however many calls failed for its items
C12_ItemFailuresKeepSuccess ==
    (result # NoResult /\ precondition = "ok" /\ ~listing_failed) => result.success

C12_Witness ==
    /\ pc = "idle" /\ runs = 1 /\ kills = 0 /\ faults >= 2
    /\ precondition = "ok" /\ ~listing_failed
    /\ config.variant = "mb"
    /\ items["d1"] >= 1
    /\ processed_pdfs = {}
    /\ result = Done(TRUE, 0)

\* C13: a run whose candidate listing call (the mail search or the file
\* listing) raised reports success False
C13_ListingFailureReportsFailure ==
    (listing_failed /\ result # NoResult) => ~result.success

\* C14: when the extraction library is unavailable or the agent is not found,
\* the PDF run ends at once with success False and 0 processed: nothing is
\* listed, downloaded, extracted or written, and the processed state and its
\* file are unchanged
C14_MissingExtractorEndsRun ==
    [][precondition' \in {"library", "agent"} =>
          /\ result' = Done(FALSE, 0)
          /\ pc' = "idle"
          /\ UNCHANGED <<runs, pdf_files, temp_files, extract_calls, append_calls,
                         sheet, uploads, folders,
                         processed_pdfs, processed_emails, state_file>>]_vars

C14_Witness ==
    /\ precondition = "agent"
    /\ result = Done(FALSE, 0)
    /\ runs = 1
    /\ processed_pdfs = {"d1", "d2"}
    /\ state_file.pdfs = {"d1", "d2"}

\* C15: _append_to_google_sheet calls the backend append at least once and at
\* most max_retries (3) times, makes no attempt after one that succeeded (the
\* rows are appended at most once), returns True exactly when an attempt
\* succeeded, and ends: every attempt that leaves it in the loop uses up one
\* of the max_retries attempts
C15_AppendRetries ==
    /\ [](/\ append_calls <= max_retries
          /\ append_oks <= 1
          /\ (append_ret = "True") <=> (append_oks = 1)
          /\ (append_ret = "False") => (append_calls = max_retries)
          /\ (append_ret # "none") => (append_calls >= 1)
          /\ (pc = "append") => (append_ret = "none" /\ append_calls = attempt - 1
                                   /\ attempt <= max_retries))
    /\ [][(pc = "append" /\ kills' = kills) =>
             /\ append_calls' = append_calls + 1
             /\ (pc' # "append") => (pc' = "commit" /\ append_ret' # "none")]_vars

C15_Witness ==
    /\ pc = "commit"
    /\ append_calls = max_retries
    /\ append_oks = 1
    /\ append_ret = "True"
    /\ Len(sheet) > Len(sheet_at_start)

\* a call of _append_to_google_sheet that gave up
C15_WitnessGaveUp ==
    /\ pc = "commit"
    /\ append_calls = max_retries
    /\ append_ret = "False"

\* C16: a failed call of agent.extract is retried: after the first failed
\* attempt for a document the run is still at the extraction of that document
C16_ExtractionIsRetried ==
    [][(pc = "extract" /\ extract_calls = 0 /\ faults' = faults + 1) =>
          (pc' = "extract" /\ i' = i)]_vars

\* C17: once the dispatch of a document has finished, by success or by failure,
\* no temporary file written for it remains (in a process that was not killed)
C17_NoTempFileRemains ==
    (kills = 0 /\ pc \in {"idle", "loop"}) => temp_files = {}

\* C18: the line items are those of the first present of the keys "items" and
\* "product_items": a payload with only "product_items" gives one row per
\* product item, one with both gives the rows of "items", one with neither
\* gives no row and a warning
C18_FirstPresentKey ==
    adapter_done =>
        LET data == extracted_data
        IN  /\ ("items" \in data.present) =>
                   Len(adapter_rows) = Len(data.items)
            /\ ("items" \notin data.present /\ "product_items" \in data.present) =>
                   Len(adapter_rows) = Len(data.product_items)
            /\ (data.present \cap {"items", "product_items"} = {}) =>
                   (adapter_rows = <<>> /\ adapter_warned)

\* the two cases of C18 that the code meets: "items" present, and neither key
C18_ItemsOrNeither ==
    adapter_done =>
        LET data == extracted_data
        IN  /\ ("items" \in data.present) =>
                   Len(adapter_rows) = Len(data.items)
            /\ (data.present \cap {"items", "product_items"} = {}) =>
                   (adapter_rows = <<>> /\ adapter_warned)

\* C19: a document whose download fails, or whose extraction gives zero rows,
\* causes no sheet read, header update, delete or append; it is not added to
\* processed_pdfs nor counted, and the run goes on to the next candidate
C19_EmptyDocumentWritesNothing ==
    [][(\/ /\ pc = "loop" /\ i <= Len(pdf_files)
           /\ faults' = faults + 1
        \/ /\ pc = "extract" /\ items[file_id] = 0
           /\ faults' = faults /\ kills' = kills) =>
          /\ pc' = "loop"
          /\ i' = i + 1
          /\ UNCHANGED <<sheet, state_file, processed_pdfs, processed_count,
                         pdf_files, append_calls, del_req>>]_vars

C19_Witness ==
    /\ pc = "loop" /\ i = 2 /\ runs = 1
    /\ faults = 0 /\ kills = 0
    /\ config.variant = "mb"
    /\ items["d1"] = 0
    /\ "d1" \notin ExistingIds(sheet)
    /\ "d1" \notin processed_pdfs
    /\ processed_count = 0
    /\ sheet = sheet_at_start

\* C20: a message for which no attachment was uploaded in the current run (it
\* has none, every upload failed, or every attachment was found present) is
\* not added to processed_emails, and the state file is not rewritten for it
C20_UnwrittenEmailNotMarked ==
    [][(e' = e + 1 /\ counted = {}) => UNCHANGED <<processed_emails, state_file>>]_vars

\* every attachment of m1 was found present: they were uploaded by a run that
\* was killed before it marked the message
C20_Witness ==
    /\ gpc = "loop" /\ e = 2 /\ runs = 2
    /\ kills = 1 /\ faults = 0
    /\ emails[1] = "m1"
    /\ PartsOf("m1") \subseteq delivered
    /\ Len(uploads) = Len(Attachments("m1"))
    /\ "m1" \notin processed_emails
    /\ state_file.emails = {}

\* a call made for m2 or for its only attachment failed, and nothing was uploaded
C20_WitnessCallFailed ==
    /\ gpc = "loop" /\ e > 2 /\ runs = 1 /\ kills = 0
    /\ emails[2] = "m2"
    /\ faults >= 1
    /\ PartsOf("m2") \cap delivered = {}
    /\ "m2" \notin processed_emails

\* m3 carries no attachment
C20_WitnessNoAttachment ==
    /\ gpc = "loop" /\ e > 3 /\ runs = 1 /\ kills = 0
    /\ emails[3] = "m3"
    /\ processed_emails = {"m1", "m2"}

\* C21: no folder ever holds two uploaded files of the same name: an attachment
\* whose name is already in its folder is not uploaded again, also when the
\* existence query raises
C21_NoTwoFilesOfOneName ==
    \A j, k \in 1..Len(uploads) : uploads[j] = uploads[k] => j = k

IsSuffix(t, f) == Len(t) <= Len(f) /\ SubSeq(f, Len(f) - Len(t) + 1, Len(f)) = t

\* C22: _sanitize_filename returns a name of at most 100 characters that holds
\* none of the characters < > : " / \ | ? * and ends with the original final
\* extension
C22_SanitizedName ==
    sanitize_done =>
        /\ Len(cleaned) <= 100
        /\ \A j \in 1..Len(cleaned) : cleaned[j] \notin Forbidden
        /\ LastDot(raw_name) > 0 => IsSuffix(<<".">> \o Extension(raw_name), cleaned)

\* what the code meets of C22: no forbidden character, the extension kept, and
\* at most 100 characters when the extension has at most 4
C22_ShortExtension ==
    sanitize_done =>
        /\ \A j \in 1..Len(cleaned) : cleaned[j] \notin Forbidden
        /\ LastDot(raw_name) > 0 => IsSuffix(<<".">> \o Extension(raw_name), cleaned)
        /\ Len(Extension(raw_name)) <= 4 => Len(cleaned) <= 100

\* the terms of a search term: what lies between its commas, without the
\* spaces around it, the empty ones left out
TermsOf(str) ==
    LET commas == SelectSeq([j \in 1..Len(str) |-> j], LAMBDA j : str[j] = ",")
        cuts == <<0>> \o commas \o <<Len(str) + 1>>
        solid(k) == {j \in (cuts[k] + 1)..(cuts[k + 1] - 1) : str[j] # " "}
        term(k) == IF solid(k) = {} THEN <<>>
                   ELSE SubSeq(str, CHOOSE j \in solid(k) : \A h \in solid(k) : j <= h,
                                    Max(solid(k)))
    IN  SelectSeq([k \in 1..(Len(cuts) - 1) |-> term(k)], LAMBDA t : t # <<>>)

RECURSIVE Disjunction(_)
Disjunction(ts) ==
    IF Len(ts) = 1 THEN <<"\"">> \o ts[1] \o <<"\"">>
    ELSE <<"\"">> \o ts[1] \o <<"\"", " ", "O", "R", " ">> \o Disjunction(Tail(ts))

C23_WitnessOnlyCommas ==
    /\ query_done
    /\ keyword_expr = <<",", " ", ",">>
    /\ keyword_parts = <<>>

\* C24: after every item commit the state file holds exactly the processed
\* sets of the memory, also when a write of the file has failed
C24_StateFileFollowsMemory ==
    state_file = [emails |-> processed_emails, pdfs |-> processed_pdfs]

\* C25: a call that fails in a state of a sheet write (header read, header
\* update, sheet re-read, delete) ends the write of the item: none of the later
\* states of the write is executed
C25_FailedStateEndsWrite ==
    [][(pc \in {"headers", "update", "locate", "delete"} /\ faults' = faults + 1) =>
          pc' \notin {"update", "locate", "delete", "append"}]_vars

\* the part of C25 that the code meets: a failed delete ends the write
C25_FailedDeleteEndsWrite ==
    [][(pc = "delete" /\ faults' = faults + 1) => (pc' = "commit" /\ sheet' = sheet)]_vars

\* the A1 label of column n as code points: A..Z, AA, AB, ...
RECURSIVE A1Label(_)
A1Label(n) ==
    IF n <= 26 THEN <<64 + n>>
    ELSE A1Label((n - 1) \div 26) \o <<65 + ((n - 1) % 26)>>

\* C26: for every number n >= 1 of headers the header update addresses row 1
\* up to the A1 label of column n, and a header read that succeeds returns all
\* the headers of row 1, so that the reconciled list starts with them
C26_HeadersBeyondZ ==
    /\ [](pc = "update" => range_end(Len(all_headers)) = A1Label(Len(all_headers)))
    /\ [][(pc = "headers" /\ faults' = faults /\ kills' = kills) =>
             IsPrefix(Header(sheet), all_headers')]_vars

\* what the code meets of C26: the label is right up to column Z
C26_UpToZ ==
    (pc = "update" /\ Len(all_headers) <= LastLetterCol) =>
        range_end(Len(all_headers)) = A1Label(Len(all_headers))

\* the order in which a row's keys are met: the keys of the line item, then
\* the injected ones in the order of their assignment
KeyOrder == <<"qty", "po_number", "processed_date", "drive_file_id">>

\* the keys of the rows in the order of their first encounter
EncounterOrder(rs) == SelectSeq(KeyOrder, LAMBDA k : k \in KeyUnion(rs))

\* C27: the reconciled header list is the existing headers in their order,
\* followed by the absent keys in the order of their first encounter across
\* the rows, the same on every run
C27_ReconciledOrder ==
    [][(pc = "headers" /\ faults' = faults /\ kills' = kills) =>
          all_headers' =
              get_sheet_headers(sheet) \o
              SelectSeq(EncounterOrder(rows),
                        LAMBDA k : k \notin Range(get_sheet_headers(sheet)))]_vars

\* what the code meets of C27: the existing headers first and in their order,
\* then the absent keys, each once, in some order
C27_ExistingFirst ==
    [][(pc = "headers" /\ faults' = faults /\ kills' = kills) =>
          /\ IsPrefix(get_sheet_headers(sheet), all_headers')
          /\ Range(all_headers') = Range(get_sheet_headers(sheet)) \cup KeyUnion(rows)
          /\ Len(all_headers') =
                 Len(get_sheet_headers(sheet)) +
                 Cardinality(KeyUnion(rows) \ Range(get_sheet_headers(sheet)))]_vars

\* the data rows of s that are not tagged with d, in their order
OtherRows(s, d) == WithoutRows(s, {1} \cup TaggedRowNumbers(s, d))

C29_RowsUnderTheirHeaders ==
    (pc = "append") =>
        LET vals == Values(rows, all_headers)
        IN  /\ \A j \in 1..Len(vals) :
                   /\ Len(vals[j]) = Len(all_headers)
                   /\ \A c \in 1..Len(all_headers) :
                          vals[j][c] = IF all_headers[c] \in DOMAIN rows[j]
                                       THEN rows[j][all_headers[c]] ELSE ""
            /\ IsPrefix(all_headers, Header(sheet))

\* what the code meets of C29: the width and the cells of the rows, and the
\* headers when no call of the write has failed and the list fits A..Z
C29_RowsUnderTheirHeadersNoFault ==
    (pc = "append" /\ ~wfault /\ Len(all_headers) <= LastLetterCol) =>
        /\ \A j \in 1..Len(rows) : Len(Values(rows, all_headers)[j]) = Len(all_headers)
        /\ IsPrefix(all_headers, Header(sheet))

\* C30: every row that _process_extracted_data returns carries the document's
\* id as drive_file_id and its name as source_file, whatever the line item
\* and the payload held, and no field of a row is "" or None
C30_RowsCarryTheDocument ==
    adapter_done =>
        \A j \in 1..Len(adapter_rows) :
            /\ {"drive_file_id", "source_file"} \subseteq DOMAIN adapter_rows[j]
            /\ adapter_rows[j].drive_file_id = "d1"
            /\ adapter_rows[j].source_file = "d1.pdf"
            /\ \A k \in DOMAIN adapter_rows[j] : adapter_rows[j][k] \notin {"", PyNone}

C30_Witness ==
    /\ adapter_done
    /\ extracted_data.po_number = ""
    /\ extracted_data.items =
           << [qty |-> "1", drive_file_id |-> "zz", source_file |-> ""], [qty |-> PyNone] >>
    /\ Len(adapter_rows) = 2
    /\ adapter_rows[1].drive_file_id = "d1"
    /\ DOMAIN adapter_rows[2] = {"source_file", "processed_date", "drive_file_id"}

\* everything of the PDF side but the loop index, and everything of the mail
\* side but the loop index
AllButIndex ==
    <<sheet, state_file, processed_pdfs, processed_emails, config, items, pc, pdf_files,
      existing_file_ids, rows, sheet_id_ok, all_headers, rows_to_delete, attempt,
      processed_count, history, drive, gmail_config, gpc, emails, part, base_folder_id,
      search_folder_id, type_folder_id, attachment_count, total_attachments, mailHistory,
      routerVars, pureVars, writeHistory, temp_files, report>>

\* C31: a candidate whose id is in the processed set when the loop visits it
\* makes the run do nothing but go on to the next candidate: no backend call
\* (no download, extraction, message fetch, upload or sheet write leaves a
\* trace), the processed sets, the state file and the counters stay as they
\* are, and the loop index moves by one
C31_ProcessedCandidateSkipped ==
    [][kills' = kills =>
        /\ (pc = "loop" /\ i <= Len(pdf_files) /\ file_id \in processed_pdfs)
               => (i' = i + 1 /\ e' = e /\ UNCHANGED AllButIndex)
        /\ (gpc = "loop" /\ e <= Len(emails) /\ message_id \in processed_emails)
               => (e' = e + 1 /\ i' = i /\ UNCHANGED AllButIndex)]_vars

\* the second run has gone past d1, which the first run committed
C31_Witness ==
    /\ pc = "loop"
    /\ runs = 2
    /\ i = 2
    /\ pdf_files[1] \in processed_pdfs
    /\ processed_count = 0
    /\ kills = 0

\* the same for a message of the mailbox
C31_WitnessEmail ==
    /\ gpc = "loop"
    /\ runs = 2
    /\ e = 2
    /\ emails[1] \in processed_emails
    /\ total_attachments = 0
    /\ kills = 0

\* C32: the page's loop takes the messages in the order the thread put them
\* (what was taken, followed by what lies in the queue, is what was put); a
\* put is possible whenever the thread has a message to put, wherever the
\* loop stands and however long the queue is; and the loop is left only when
\* the thread has ended and every message it put has been taken
C32_QueueInOrderNothingLost ==
    /\ seen \o progress_queue = put_log
    /\ pending # <<>> => ENABLED Put
    /\ upc \in {"join", "finished"} =>
           /\ runner = "ended"
           /\ pending = <<>>
           /\ progress_queue = <<>>
           /\ seen = put_log

\* a combined run whose messages were all taken, the two terminal results and
\* the closing message included
C32_Witness ==
    /\ upc = "finished"
    /\ workflow_type = "combined"
    /\ Cardinality({j \in 1..Len(seen) : seen[j].type = "done"}) = 2
    /\ seen[Len(seen)].type = "success"

\* the thread has ended with messages still in the queue, and the loop's
\* test is at its right operand
C32_WitnessThreadEndedFirst ==
    /\ runner = "ended"
    /\ upc = "empty"
    /\ Len(progress_queue) >= 2
    /\ progress_queue[1].type = "done"

\* C37: an invocation of process_gmail_workflow or process_pdf_workflow puts
\* one 'done' message and nothing after it, whichever way it ends: it never
\* has put two or put a message after its 'done', and when it returns it has
\* put one
C37_OneTerminalMessage ==
    /\ ~late
    /\ dones <= 1
    /\ (invocation # "none" /\ wpc = "return" /\ pending = <<>>) => dones = 1
    /\ (invocation = "none" /\ runner \in {"step2", "call2", "epilogue", "ending", "ended"})
           => dones = 1

\* an exception after a candidate was processed: the handler's 'done' reports
\* failure and is the only one
C37_Witness ==
    /\ invocation = "pdf"
    /\ wpc = "return"
    /\ pending = <<>>
    /\ count = 1
    /\ dones = 1
    /\ put_log[Len(put_log)].type = "done"
    /\ ~put_log[Len(put_log)].success

\* the exit of a run that found no candidate
C37_WitnessNoCandidate ==
    /\ invocation = "gmail"
    /\ wpc = "return"
    /\ pending = <<>>
    /\ dones = 1
    /\ put_log[Len(put_log)] =
           [type |-> "done", success |-> TRUE, processed |-> 0, n |-> Len(put_log),
            by |-> "gmail"]

\* the PDF step is entered only after the Gmail step has put its 'done'
C38_PdfAfterGmailResult ==
    (workflow_type = "combined" /\ invocation = "pdf") =>
        \E k \in 1..Len(put_log) : put_log[k].type = "done" /\ put_log[k].by = "gmail"

\* C38: in the combined run the PDF step starts after the Gmail step's
\* terminal result, and the closing 'Combined workflow completed
\* successfully!' is put only if every step before it reported success
C38_CombinedSuccessNeedsBoth ==
    /\ C38_PdfAfterGmailResult
    /\ \A j \in 1..Len(put_log) :
           (put_log[j].type = "success" /\ put_log[j].by = "none") =>
               \A k \in 1..j : put_log[k].type = "done" => put_log[k].success

\* the document listing returns every matching file, in the backend's order
C33_DriveListingComplete ==
    (listed /\ listing_kind = "drive") => all_files = matching

\* C33: both listings return the concatenation of all pages: the document
\* listing every matching file, the email listing the first max_results
\* matching messages, over however many pages the backend delivers them
C33_ListingsFollowPages ==
    /\ C33_DriveListingComplete
    /\ (listed /\ listing_kind = "gmail") => all_files = Take(matching, max_results)

\* four files delivered over two pages
C33_WitnessDrive ==
    /\ listed
    /\ listing_kind = "drive"
    /\ backend_page = 2
    /\ all_files = <<1, 2, 3, 4>>

\* the item is inside the window: not older than days_back days
InWindow == created >= time_now - Days(days_back)

\* an email inside the window satisfies the lower bound of the mail query
C34_MailWindowKeepsItems ==
    (window_done /\ InWindow) => created >= mail_lower

\* C34: for every days_back >= 1 and every time of day, an item created or
\* received on or after now - days_back days satisfies the lower bound of
\* the document query and of the mail query
C34_WindowKeepsItems ==
    /\ C34_MailWindowKeepsItems
    /\ (window_done /\ InWindow) => created >= drive_lower

\* an email at the very start of the window, days_back = 1
C34_WitnessMail ==
    /\ window_done
    /\ days_back = 1
    /\ created = time_now - Days(1)
    /\ created >= mail_lower

\* C35: with two instances that loaded the state file at construction and
\* overwrite it on commit, no write removes an id from the persisted file:
\* the persisted set of processed documents only grows
C35_PersistedSetOnlyGrows ==
    [][shared_state.pdfs \subseteq shared_state'.pdfs]_vars

\* a delete issued for document X leaves every row of another document in place
C36_DeleteKeepsOtherRows ==
    [][\A p \in Procs :
          (inst_pc[p] = "delete" /\ inst_pc'[p] = "append") =>
              OtherRows(shared_sheet', inst_file(p)) = OtherRows(shared_sheet, inst_file(p))]_vars

\* when both runs have ended, the rows of each document come from one write
OneWritePerDocument ==
    (\A p \in Procs : inst_pc[p] = "ended") =>
        \A d \in Docs : TaggedCount(shared_sheet, d) <= 1

\* C36: with two overlapping runs on one tab, a delete issued for X removes
\* no row tagged with another document's id, under every interleaving of the
\* runs' reads, deletes and appends, and no document ends with rows from two
\* writes
C36_OverlappingWritesKeepRows ==
    /\ C36_DeleteKeepsOtherRows
    /\ []OneWritePerDocument

\* every listed document that yields rows is in the sheet and in processed_pdfs
AllWritten ==
    \A d \in Range(Listing) :
        items[d] > 0 => (d \in ExistingIds(sheet) /\ d \in processed_pdfs)

\* when the cap does not cut the listing, every document that yields rows is
\* eventually written and marked
C39_UncappedEventuallyWritten ==
    (config.max_files >= Len(Listing)) => <>AllWritten

\* C39: under repeated runs over an unchanged listing with no backend
\* failure, every listed document whose extraction yields a row is eventually
\* written to the sheet and added to processed_pdfs, also when the listing
\* holds more than max_files documents and when earlier documents are
\* processed already or never yield a row
C39_EveryDocumentEventuallyWritten == <>AllWritten

=============================================================================
